---- MODULE Spec2Model ----
(***************************************************************************)
(* Model of the logging database of WavePlus_Bridge (src/libs/logdb.py):   *)
(* the CSV-backed persistent log (_LogDbCsv) and the in-memory store with  *)
(* retention (LogDB).                                                      *)
(*                                                                         *)
(* The CSV file is modelled by its two header lines (the parsed fields of  *)
(* the info line, the labels of the label line and the number of padding   *)
(* spaces) followed by the bytes of the data region, one 1-character       *)
(* string per byte.  Values are Python numbers: [num |-> x] for a real     *)
(* number, NaN for float('nan') and REP for float('inf').                  *)
(*                                                                         *)
(* The alert trigger of the bridge (src/libs/trigger.py) is modelled too:  *)
(* its thresholds, its delay ('for') and its minimum interval, with times  *)
(* in whole seconds.                                                       *)
(***************************************************************************)
EXTENDS Integers, Sequences, FiniteSets, TLC

VARIABLES
    file,   \* the CSV file on disk: Absent, or its header and data bytes
    db,     \* the LogDB object of the process: Closed, or its attributes
    hist,   \* history: the data sets inserted into the file, or into the
            \* store if it has no file, in their order
    prev,   \* history: labels and columns of the store that was replaced
    thr     \* the threads that use the store: the position of the insert
            \* of the main thread (w) and of the query of an HTTP request
            \* thread (r), with their local variables

vars == <<file, db, hist, prev, thr>>

----------------------------------------------------------------------------
(* Bounds of the model *)

\* Largest number of data lines the file may hold
MaxLines == 3

\* Initial chunk sizes 1..MaxChunk are tried besides the program's default
MaxChunk == 6

----------------------------------------------------------------------------
(* Python values *)

None == -1

NaN == [nan |-> TRUE]
REP == [inf |-> TRUE]
Num(x) == [num |-> x]
IsNum(v) == "num" \in DOMAIN v

\* Python's  value == value : false exactly for NaN
NotNaN(v) == v # NaN

\* Python's  a == b  on floats: NaN equals nothing
FloatEq(a, b) == a # NaN /\ b # NaN /\ a = b

CSV_HEADER_ROW_LENGTH == 2048
INIT_RELOAD_SIZE == 1000000

NL == "\n"
WhiteSpace == {" ", "\t", "\r", NL}
DigitChars == <<"0", "1", "2", "3", "4", "5", "6", "7", "8", "9">>

Range(s) == {s[i] : i \in DOMAIN s}
Reverse(s) == [i \in 1..Len(s) |-> s[Len(s) + 1 - i]]
Min(a, b) == IF a < b THEN a ELSE b
Max(a, b) == IF a > b THEN a ELSE b

\* Index of the first element of s equal to x (0 if there is none)
IndexOf(s, x) ==
    IF x \in Range(s) THEN CHOOSE i \in 1..Len(s) : s[i] = x /\ \A j \in 1..(i-1) : s[j] # x
    ELSE 0

----------------------------------------------------------------------------
(* Text conversion: str(), float(), strip(), split(), join() *)

RECURSIVE NatStr(_)
NatStr(n) ==
    IF n < 10 THEN <<DigitChars[n + 1]>>
    ELSE NatStr(n \div 10) \o <<DigitChars[(n % 10) + 1]>>

\* str(value) of a Python int
\* The characters of the strings that records hold in place of a number
StrChars(string) == IF string = "N/A" THEN <<"N", "/", "A">> ELSE <<>>
\* array('d').append accepts the value (a string raises TypeError)
IsFloat(v) == "str" \notin DOMAIN v
PyStr(v) ==
    IF ~IsFloat(v) THEN StrChars(v.str)
    ELSE IF v.num < 0 THEN <<"-">> \o NatStr(-v.num) ELSE NatStr(v.num)

IsDigit(c) == c \in Range(DigitChars)
DigitVal(c) == IndexOf(DigitChars, c) - 1

RECURSIVE DigitsVal(_, _)
DigitsVal(s, acc) ==
    IF s = <<>> THEN acc ELSE DigitsVal(Tail(s), 10 * acc + DigitVal(Head(s)))

\* str.strip(): drops leading and trailing white space
RECURSIVE LStrip(_)
LStrip(s) == IF s # <<>> /\ Head(s) \in WhiteSpace THEN LStrip(Tail(s)) ELSE s
Strip(s) == Reverse(LStrip(Reverse(LStrip(s))))

\* float(string) of decimal integer text and of the text inf, which is
\* float('inf'); the other texts of the model's alphabet raise ValueError
\* (PyFloatOk is false)
PyFloatDigits(s) == IF s # <<>> /\ Head(s) = "-" THEN Tail(s) ELSE s
PyFloatInf == <<"i", "n", "f">>
PyFloatOk(string) ==
    LET d == PyFloatDigits(Strip(string))
    IN  \/ Strip(string) = PyFloatInf
        \/ d # <<>> /\ \A i \in 1..Len(d) : IsDigit(d[i])
PyFloat(string) ==
    LET s == Strip(string)
    IN  IF s = PyFloatInf THEN REP
        ELSE IF Head(s) = "-" THEN Num(0 - DigitsVal(Tail(s), 0))
        ELSE Num(DigitsVal(s, 0))

\* str.split(sep): always at least one field
RECURSIVE Split(_, _)
Split(s, sep) ==
    IF sep \notin Range(s) THEN <<s>>
    ELSE LET i == IndexOf(s, sep)
         IN  <<SubSeq(s, 1, i - 1)>> \o Split(SubSeq(s, i + 1, Len(s)), sep)

\* sep.join(fields)
RECURSIVE Join(_, _)
Join(fields, sep) ==
    IF fields = <<>> THEN <<>>
    ELSE IF Len(fields) = 1 THEN fields[1]
    ELSE fields[1] \o <<sep>> \o Join(Tail(fields), sep)

\* len(",".join(strings)) for a sequence of strings
RECURSIVE JoinLen(_)
JoinLen(strings) ==
    IF strings = <<>> THEN 0
    ELSE IF Len(strings) = 1 THEN Len(strings[1])
    ELSE Len(strings[1]) + 1 + JoinLen(Tail(strings))

----------------------------------------------------------------------------
(* The CSV file *)

Absent == [absent |-> TRUE]

\* A file without header lines: what  open(file, "bw")  creates
EmptyFile == [hdr |-> FALSE, info |-> <<>>, labels |-> <<>>, pad |-> 0, body |-> <<>>]

\* Bytes of the two header lines, the line ends included (f.tell() after
\* two readline() calls from the start of the file)
RECURSIVE LineEnd(_, _)
LineEnd(bytes, pos) ==
    \* number of bytes up to and including the first line end at or after
    \* byte offset pos (Len(bytes) if there is none)
    IF pos >= Len(bytes) THEN Len(bytes)
    ELSE IF bytes[pos + 1] = NL THEN pos + 1
    ELSE LineEnd(bytes, pos + 1)

HeaderLength(f) ==
    IF f.hdr THEN JoinLen(f.info) + 1 + JoinLen(f.labels) + f.pad + 1
    ELSE LineEnd(f.body, LineEnd(f.body, 0))

FileSize(f) == IF f.hdr THEN HeaderLength(f) + Len(f.body) ELSE Len(f.body)

\* Offset of the first data byte of f.body in the file
BodyStart(f) == IF f.hdr THEN HeaderLength(f) ELSE 0

\* A read position that is left where seek() put it
ReadLineUnaligned(f, pos) == Min(pos, FileSize(f))

\* f.seek(pos); f.readline(); f.tell()
ReadLine(f, pos) ==
    IF pos >= FileSize(f) THEN FileSize(f)
    ELSE IF pos < BodyStart(f)
         THEN IF pos <= JoinLen(f.info) THEN JoinLen(f.info) + 1 ELSE BodyStart(f)
         ELSE BodyStart(f) + LineEnd(f.body, pos - BodyStart(f))

\* f.seek(pos); f.read(size): a negative size reads up to the end of the
\* file.  The restore reads from line starts of the data region only.
ReadBytes(f, pos, size) ==
    LET from == Max(pos, BodyStart(f)) - BodyStart(f) + 1
        upto == IF size < 0 THEN Len(f.body)
                ELSE Min(pos + size - BodyStart(f), Len(f.body))
    IN  SubSeq(f.body, from, upto)

RECURSIVE Chars2Str(_)
Chars2Str(s) == IF s = <<>> THEN "" ELSE Head(s) \o Chars2Str(Tail(s))

\* str(f.readline()).strip().split(",")  of the first line
ReadInfo(f) ==
    IF f.hdr THEN f.info
    ELSE LET line == SubSeq(f.body, 1, LineEnd(f.body, 0))
             parts == Split(Strip(line), ",")
         IN  [i \in 1..Len(parts) |-> Chars2Str(parts[i])]

\* the second line, split at the commas, each label stripped
ReadLabels(f) ==
    IF f.hdr THEN f.labels
    ELSE LET from == LineEnd(f.body, 0)
             line == SubSeq(f.body, from + 1, LineEnd(f.body, from))
             parts == Split(line, ",")
         IN  [i \in 1..Len(parts) |-> Chars2Str(Strip(parts[i]))]

\* An info line that names the absolute mode whatever the mode is
InfoLineAbsolute(log_delta) == <<"logdbcsv", "version=1.0", "delta=0">>

InfoLine(log_delta) ==
    <<"logdbcsv", "version=1.0", IF log_delta THEN "delta=1" ELSE "delta=0">>

RECURSIVE Spaces(_)
Spaces(n) == IF n <= 0 THEN <<>> ELSE <<" ">> \o Spaces(n - 1)

\* A header that is not written
WriteHeaderNone(f, log_delta, all_labels) == f

\* f.seek(0, 0) and the write of the info line and of the padded label
\* line: the bytes written replace the bytes the file held at these
\* offsets, whatever they were
WriteHeader(f, log_delta, all_labels) ==
    LET file_info_line == InfoLine(log_delta)
        pad == Max(0, CSV_HEADER_ROW_LENGTH - JoinLen(all_labels)
                                            - JoinLen(file_info_line))
        written == JoinLen(file_info_line) + 1 + JoinLen(all_labels) + pad + 1
        old == BodyStart(f)
        \* a shorter header leaves the end of the old one (padding and
        \* line end) in front of the data
        left == IF written < old /\ f.hdr
                THEN Spaces(old - written - 1) \o <<NL>> ELSE <<>>
        body == IF written > old
                THEN SubSeq(f.body, written - old + 1, Len(f.body))
                ELSE left \o f.body
    IN  [hdr |-> TRUE, info |-> file_info_line, labels |-> all_labels,
         pad |-> pad, body |-> body]

----------------------------------------------------------------------------
(* _LogDbCsv *)

InfoValid(file_info) ==
    /\ Len(file_info) = 3
    /\ file_info[1] = "logdbcsv"
    /\ file_info[3] \in {"delta=0", "delta=1"}

\* __init__, lines 107..113: the requested labels the file does not have
NewLabels(existing_labels, labels) ==
    SelectSeq(labels, LAMBDA label : label \notin Range(existing_labels))

\* A label list in the order of the request
AllLabelsRequested(existing_labels, labels) ==
    labels \o SelectSeq(existing_labels, LAMBDA label : label \notin Range(labels))

\* __init__, lines 107..113: the labels of the file, the new ones appended
AllLabels(existing_labels, labels) ==
    existing_labels \o NewLabels(existing_labels, labels)

\* _LogDbCsv.__init__: returns the file as left on disk, the file renamed
\* to a backup name (Absent if none) and the attributes of the object;
\* reload_size is the class attribute INIT_RELOAD_SIZE the object reads
LogDbCsv_init(f, labels, log_delta, reload_size) ==
    LET exists == f # Absent
        file_info == IF exists THEN ReadInfo(f) ELSE <<>>
        existing_labels == IF exists THEN ReadLabels(f) ELSE <<>>
        keep == exists /\ InfoValid(file_info)
        mode == IF keep THEN file_info[3] = "delta=1" ELSE log_delta
        new_labels == NewLabels(existing_labels, labels)
        all_labels == AllLabels(existing_labels, labels)
        f0 == IF keep THEN f ELSE EmptyFile
    IN  [file |-> IF new_labels # <<>> THEN WriteHeader(f0, mode, all_labels) ELSE f0,
         backup |-> IF exists /\ ~keep THEN f ELSE Absent,
         csv |-> [labels |-> all_labels,
                  log_delta |-> mode,
                  header_length |-> IF keep THEN HeaderLength(f) ELSE None,
                  reload_size |-> reload_size,
                  last_data_set |-> <<>>]]


\* _LogDbCsv._str2float
str2float(string, log_delta) ==
    IF string = <<>> THEN (IF log_delta THEN REP ELSE NaN)
    ELSE IF string = <<"n">> THEN NaN
    ELSE IF PyFloatOk(string) THEN PyFloat(string)
    ELSE IF Strip(string) = <<>> /\ log_delta THEN REP ELSE NaN

\* A line whose fields are appended, and no NaN for the columns it has no
\* field for
AppendRecordNoFill(csv, present, data_matrix, data_record) ==
    [index \in 1..Len(data_matrix) |->
        IF present[index] /\ index <= Len(data_record)
        THEN Append(data_matrix[index],
                    str2float(data_record[index], csv.log_delta))
        ELSE data_matrix[index]]

\* restore_data, lines 261..271: the fields of one line are appended to
\* the arrays of their columns, the columns the line has no field for get
\* NaN; a column whose label is no key of data (None) is left alone
AppendRecord(csv, present, data_matrix, data_record) ==
    [index \in 1..Len(data_matrix) |->
        IF ~present[index] THEN data_matrix[index]
        ELSE IF index <= Len(data_record)
             THEN Append(data_matrix[index],
                         str2float(data_record[index], csv.log_delta))
        ELSE IF index <= Len(csv.labels)
             THEN Append(data_matrix[index], NaN)
        ELSE data_matrix[index]]

\* restore_data, lines 247..276: the lines of one chunk, newest first.
\* n is nbr_records_to_load (None for float('inf'))
RECURSIVE RestoreLines(_, _, _, _, _)
RestoreLines(csv, present, data_matrix, lines, n) ==
    IF lines = <<>> THEN [ok |-> TRUE, m |-> data_matrix, n |-> n]
    ELSE LET data_record == Split(Strip(Head(lines)), ",")
         IN  IF Len(data_record) < 2
             THEN RestoreLines(csv, present, data_matrix, Tail(lines), n)
             ELSE IF Len(data_record) > Len(data_matrix)
             THEN [ok |-> FALSE, m |-> data_matrix, n |-> n]
             ELSE LET m == AppendRecord(csv, present, data_matrix, data_record)
                      left == IF n = None THEN None ELSE n - 1
                  IN  IF left # None /\ left <= 0
                      THEN [ok |-> TRUE, m |-> m, n |-> left]
                      ELSE RestoreLines(csv, present, m, Tail(lines), left)

\* restore_data, lines 220..279: the chunks, from the end of the file
RECURSIVE RestoreChunks(_, _, _, _, _, _, _)
RestoreChunks(f, csv, present, data_matrix, read_pos, reload_size, n) ==
    IF n # None /\ n <= 0 THEN [ok |-> TRUE, m |-> data_matrix, n |-> n]
    ELSE LET all_read == read_pos - reload_size < csv.header_length
             seek == IF all_read THEN csv.header_length - 2
                     ELSE read_pos - reload_size
             tell == ReadLine(f, seek)
             read_size == read_pos - tell
             data_csv == ReadBytes(f, tell, read_size)
             r == RestoreLines(csv, present, data_matrix,
                               Reverse(Split(data_csv, NL)), n)
         IN  IF ~r.ok \/ all_read THEN r
             ELSE RestoreChunks(f, csv, present, r.m, tell, 2 * reload_size, r.n)

\* restore_data, lines 286..292: the repeated locations of a delta log
RECURSIVE Populate(_, _, _)
Populate(ds, index, value) ==
    IF index > Len(ds) THEN ds
    ELSE IF ds[index] = REP
         THEN Populate([ds EXCEPT ![index] = value], index + 1, value)
         ELSE Populate(ds, index + 1, ds[index])

\* restore_data, lines 283..292
FinishColumn(csv, ds) ==
    IF csv.log_delta THEN Populate(Reverse(ds), 1, NaN) ELSE Reverse(ds)

\* _LogDbCsv.restore_data(data, number_retention_records).  ok is FALSE
\* when the method raises (a line with more fields than labels)
restore_data(f, csv, data, number_retention_records) ==
    IF csv.header_length = None THEN [ok |-> TRUE, data |-> data]
    ELSE LET present == [i \in 1..Len(csv.labels) |-> csv.labels[i] \in DOMAIN data]
             data_matrix == [i \in 1..Len(csv.labels) |->
                                IF present[i] THEN data[csv.labels[i]] ELSE <<>>]
             r == RestoreChunks(f, csv, present, data_matrix, FileSize(f),
                                csv.reload_size, number_retention_records)
         IN  [ok |-> r.ok,
              data |-> [label \in DOMAIN data |->
                           FinishColumn(csv, r.m[IndexOf(csv.labels, label)])]]

\* The text _LogDbCsv.insert writes for one label (lines 330..355)
EmptyStr == [str |-> ""]
CsvValue(data_set, label) ==
    IF label \notin DOMAIN data_set \/ data_set[label] = EmptyStr
    THEN NaN ELSE data_set[label]
\* A field written by the rules of the absolute log in both modes
CsvFieldAlwaysAbsolute(csv, data_set, label) ==
    LET value == CsvValue(data_set, label)
    IN  IF NotNaN(value) THEN PyStr(value) ELSE <<>>

\* A field written by the rules of the delta log in both modes
CsvFieldAlwaysDelta(csv, data_set, label) ==
    LET value == CsvValue(data_set, label)
    IN  IF label \notin DOMAIN csv.last_data_set
        THEN (IF NotNaN(value) THEN PyStr(value) ELSE <<"n">>)
        ELSE LET last_value == csv.last_data_set[label]
             IN  IF NotNaN(value)
                 THEN (IF FloatEq(value, last_value) THEN <<>> ELSE PyStr(value))
                 ELSE (IF NotNaN(last_value) THEN <<"n">> ELSE <<>>)

CsvField(csv, data_set, label) ==
    LET value == CsvValue(data_set, label)
    IN  IF ~csv.log_delta
        THEN (IF NotNaN(value) THEN PyStr(value) ELSE <<>>)
        ELSE IF label \notin DOMAIN csv.last_data_set
        THEN (IF NotNaN(value) THEN PyStr(value) ELSE <<"n">>)
        ELSE LET last_value == csv.last_data_set[label]
             IN  IF NotNaN(value)
                 THEN (IF FloatEq(value, last_value) THEN <<>> ELSE PyStr(value))
                 ELSE (IF NotNaN(last_value) THEN <<"n">> ELSE <<>>)

\* An insert that writes no line
CsvLineNone(csv, data_set) == <<>>

\* A line with one field more than the log has labels
CsvLineLonger(csv, data_set) ==
    Join([index \in 1..Len(csv.labels) |->
             CsvField(csv, data_set, csv.labels[index])], ",") \o <<",", NL>>

\* The line _LogDbCsv.insert appends for data_set, with its line end
CsvLine(csv, data_set) ==
    Join([index \in 1..Len(csv.labels) |->
             CsvField(csv, data_set, csv.labels[index])], ",") \o <<NL>>

\* A last_data_set that is never updated
LastDataSetKeep(csv, data_set) == csv.last_data_set

\* last_data_set after _LogDbCsv.insert (line 358: delta log only)
LastDataSet(csv, data_set) ==
    IF ~csv.log_delta THEN csv.last_data_set
    ELSE [label \in DOMAIN csv.last_data_set \cup Range(csv.labels) |->
             IF label \in Range(csv.labels) THEN CsvValue(data_set, label)
             ELSE csv.last_data_set[label]]


----------------------------------------------------------------------------
(* LogDB *)

Closed == [closed |-> TRUE]
NoCsv == [none |-> TRUE]

\* LogDB.__init__ for a flat label list.  with_file: the file argument is
\* given.  ok is FALSE when the constructor raises; the file is then left
\* as _LogDbCsv.__init__ wrote it.
LogDB_init(f, label_specs, with_file, number_retention_records, retention_time, log_delta, reload_size) ==
    LET labels == <<"Time">> \o label_specs
        data == [label \in Range(labels) |-> <<>>]
        c == LogDbCsv_init(f, labels, log_delta, reload_size)
        r == restore_data(c.file, c.csv, data, number_retention_records)
    IN  [ok |-> ~with_file \/ r.ok,
         file |-> IF with_file THEN c.file ELSE f,
         backup |-> IF with_file THEN c.backup ELSE Absent,
         db |-> [labels |-> labels,
                 logdbcsv |-> IF with_file THEN c.csv ELSE NoCsv,
                 data |-> IF with_file THEN r.data ELSE data,
                 number_retention_records |-> number_retention_records,
                 retention_time |-> retention_time]]

\* A data set that is made of the time stamp alone and is never refused
DataSetUnchecked(labels, log_data, tstamp) ==
    [ok |-> TRUE, data_set |-> [label \in {"Time"} |-> Num(tstamp)]]

\* LogDB.insert, lines 500..505: the keys and values of a mapping, the
\* values of a group under the keys group:subkey.  No two keys of the
\* arguments of the model flatten to the same key
IsDict(d_value) == "dict" \in DOMAIN d_value
FlatItems(log_data) ==
    {<<d_key, log_data[d_key]>> :
        d_key \in {k \in DOMAIN log_data : ~IsDict(log_data[k])}}
    \cup UNION {{<<d_key \o ":" \o d_key2, log_data[d_key].dict[d_key2]>> :
                    d_key2 \in DOMAIN log_data[d_key].dict} :
                d_key \in {k \in DOMAIN log_data : IsDict(log_data[k])}}
Flatten(log_data) ==
    [key \in {item[1] : item \in FlatItems(log_data)} |->
        (CHOOSE item \in FlatItems(log_data) : item[1] = key)[2]]

\* LogDB.insert, lines 492..511: the data set of a list or of a mapping.
\* ok is FALSE when an assertion fails
DataSet(labels, log_data, tstamp) ==
    LET time == [label \in {"Time"} |-> Num(tstamp)]
    IN  IF log_data.kind = "list"
        THEN [ok |-> Len(log_data.v) = Len(labels) - 1,
              data_set |-> [label \in {"Time"} \cup Range(Tail(labels)) |->
                  IF label \in Range(Tail(labels))
                  THEN LET last == CHOOSE i \in 1..Len(Tail(labels)) :
                                      /\ Tail(labels)[i] = label
                                      /\ \A j \in (i+1)..Len(Tail(labels)) :
                                            Tail(labels)[j] # label
                       IN  IF last <= Len(log_data.v) THEN log_data.v[last] ELSE NaN
                  ELSE Num(tstamp)]]
        ELSE IF log_data.kind = "dict"
        THEN LET items == Flatten(log_data.v)
             IN  [ok |-> Cardinality({"Time"} \cup DOMAIN items) <= Len(labels),
                  data_set |-> [label \in {"Time"} \cup DOMAIN items |->
                      IF label \in DOMAIN items THEN items[label]
                      ELSE Num(tstamp)]]
        ELSE [ok |-> FALSE, data_set |-> time]

\* LogDB.insert, lines 520..522: one append per entry of the label list
RECURSIVE AppendAll(_, _, _)
AppendAll(data, labels, data_set) ==
    IF labels = <<>> THEN data
    ELSE AppendAll([data EXCEPT ![Head(labels)] =
                       Append(@, IF Head(labels) \in DOMAIN data_set
                                 THEN data_set[Head(labels)] ELSE NaN)],
                   Tail(labels), data_set)

\* A trim that removes the oldest record only
CountToDeleteOne(length, number_retention_records) ==
    IF number_retention_records # None /\ 10 * length > 11 * number_retention_records
    THEN 1
    ELSE 0

\* A trim that starts at 1.2 times the cap
CountToDeleteLate(length, number_retention_records) ==
    IF number_retention_records # None /\ 10 * length > 12 * number_retention_records
    THEN length - number_retention_records
    ELSE 0

\* LogDB.insert, lines 528..531:  len > number_retention_records*1.1  in
\* exact arithmetic (the float product never lies on the other side of an
\* integer)
CountToDelete(length, number_retention_records) ==
    IF number_retention_records # None /\ 10 * length > 11 * number_retention_records
    THEN length - number_retention_records
    ELSE 0

\* A duration cap that deletes nothing
TimeToDeleteNone(time, tstamp, retention_time, nbr_rec_to_delete) == nbr_rec_to_delete

\* LogDB.insert, lines 532..536
RECURSIVE TimeToDelete(_, _, _, _)
TimeToDelete(time, tstamp, retention_time, nbr_rec_to_delete) ==
    IF retention_time = None THEN nbr_rec_to_delete
    ELSE IF /\ nbr_rec_to_delete < Len(time)
            /\ IsNum(time[nbr_rec_to_delete + 1])
            /\ 10 * time[nbr_rec_to_delete + 1].num < 10 * tstamp - 11 * retention_time
    THEN TimeToDelete(time, tstamp, retention_time, nbr_rec_to_delete + 1)
    ELSE nbr_rec_to_delete

NbrRecToDelete(d, tstamp) ==
    TimeToDelete(d.data["Time"], tstamp, d.retention_time,
                 CountToDelete(Len(d.data["Time"]), d.number_retention_records))

\* LogDB.insert, lines 537..539: one slice per entry of the label list
RECURSIVE SliceAll(_, _, _)
SliceAll(data, labels, nbr_rec_to_delete) ==
    IF labels = <<>> \/ nbr_rec_to_delete <= 0 THEN data
    ELSE SliceAll([data EXCEPT ![Head(labels)] =
                      SubSeq(@, nbr_rec_to_delete + 1, Len(@))],
                  Tail(labels), nbr_rec_to_delete)

\* LogDB.insert, lines 520..522: the position in the label list of the
\* first value that the array of its column refuses with TypeError, or the
\* length of the list plus 1
FirstNoFloat(labels, data_set) ==
    LET refused == {index \in DOMAIN labels :
                       /\ labels[index] \in DOMAIN data_set
                       /\ ~IsFloat(data_set[labels[index]])}
    IN  IF refused = {} THEN Len(labels) + 1
        ELSE CHOOSE index \in refused : \A other \in refused : index <= other

\* LogDB.insert: the object and the file after the call.  ok is FALSE when
\* the call raises: before anything is written when an assertion fails,
\* after the line is written and the columns before the refused value are
\* extended when a value is no number
LogDB_insert(d, f, log_data, tstamp) ==
    LET ds == DataSet(d.labels, log_data, tstamp)
        csv == d.logdbcsv
        f1 == IF csv = NoCsv THEN f
              ELSE [f EXCEPT !.body = @ \o CsvLine(csv, ds.data_set)]
        csv1 == IF csv = NoCsv THEN csv
                ELSE [csv EXCEPT !.last_data_set = LastDataSet(csv, ds.data_set)]
        fails == FirstNoFloat(d.labels, ds.data_set)
        appended == [d EXCEPT !.data = AppendAll(d.data,
                                           SubSeq(d.labels, 1, fails - 1),
                                           ds.data_set),
                              !.logdbcsv = csv1]
        trimmed == [appended EXCEPT !.data =
                       SliceAll(appended.data, d.labels,
                                NbrRecToDelete(appended, tstamp))]
    IN  IF ~ds.ok
        THEN [ok |-> FALSE, db |-> d, file |-> f, data_set |-> ds.data_set]
        ELSE IF fails <= Len(d.labels)
        THEN [ok |-> FALSE, db |-> appended, file |-> f1,
              data_set |-> ds.data_set]
        ELSE [ok |-> TRUE, db |-> trimmed, file |-> f1,
              data_set |-> ds.data_set]

\* LogDB.get_labels_from_spec: a pattern is given by the set of the labels
\* it fully matches
RECURSIVE get_labels_from_spec(_, _)
get_labels_from_spec(d, key_patterns) ==
    IF key_patterns = <<>> THEN <<"Time">>
    ELSE get_labels_from_spec(d, SubSeq(key_patterns, 1, Len(key_patterns) - 1))
         \o SelectSeq(Tail(d.labels),
                      LAMBDA label : label \in key_patterns[Len(key_patterns)])

\* int(x) of the rational a/b, b > 0: truncation towards zero
Trunc(a, b) == IF a >= 0 THEN a \div b ELSE 0 - ((0 - a) \div b)

\* An index that is counted from the start of the range for every position
get_abs_index_from_start(position, index_range) ==
    IF ~position.float THEN index_range[1] + position.n
    ELSE Trunc(index_range[1] * position.d
                 + position.n * (index_range[2] - index_range[1]),
               position.d)

\* LogDB.get_abs_index; a position is an int n ([float |-> FALSE, n, d |-> 1])
\* or a float of value n/d
get_abs_index(position, index_range) ==
    LET ref_index == IF position.n >= 0 THEN index_range[1] ELSE index_range[2]
    IN  IF ~position.float THEN ref_index + position.n
        ELSE Trunc(ref_index * position.d
                     + position.n * (index_range[2] - index_range[1]),
                   position.d)

PyInt(n) == [float |-> FALSE, n |-> n, d |-> 1]
PyFrac(n, d) == [float |-> TRUE, n |-> n, d |-> d]

\* LogDB.get_index_range
get_index_range(d, start, end) ==
    LET length == Len(d.data["Time"])
        index_range == <<IF d.number_retention_records = None
                            \/ length < d.number_retention_records
                         THEN 0 ELSE length - d.number_retention_records,
                         length>>
    IN  <<get_abs_index(start, index_range), get_abs_index(end, index_range)>>

\* array[pos] of Python: negative positions count from the end
PyIndexOk(array, pos) == -Len(array) <= pos /\ pos < Len(array)
PyIndex(array, pos) == IF pos >= 0 THEN array[pos + 1] ELSE array[Len(array) + pos + 1]

\* LogDB.get: ok is FALSE when an index is out of range (IndexError);
\* a data set is the mapping of the labels with a value that is not NaN
get(d, key_patterns, start, end) ==
    LET labels == get_labels_from_spec(d, key_patterns)
        index_range == get_index_range(d, start, end)
        known == {label \in Range(labels) : label \in DOMAIN d.data}
        count == Max(0, index_range[2] - index_range[1])
    IN  [ok |-> \A i \in 1..count : \A label \in known :
                    PyIndexOk(d.data[label], index_range[1] + i - 1),
         data_sets |-> [i \in 1..count |->
             LET pos == index_range[1] + i - 1
                 valid == {label \in known :
                             /\ PyIndexOk(d.data[label], pos)
                             /\ NotNaN(PyIndex(d.data[label], pos))}
             IN  [label \in valid |-> PyIndex(d.data[label], pos)]]]

\* LogDB.get_csv, lines 776..778: the factor of the section that starts
\* at the absolute index section_start; pos_def_2_index keeps the position
\* that was listed last for an index
FactorAt(sdd, index_range, section_start) ==
    LET at == {i \in 1..Len(sdd) :
                 get_abs_index(sdd[i].position, index_range) = section_start}
    IN  sdd[CHOOSE i \in at : \A j \in at : j <= i].factor

\* LogDB.get_csv, lines 753..779: the passes of the loop from pos on.  A
\* row is the value of Time it is stamped with and, for every sensor
\* column, the sum n and the number d of the valid values it averages (the
\* text of the row is strftime of the time and the mean n/d with two
\* decimals, empty for d = 0); members and factor are history: the
\* positions of the records summed up in the row and the factor in force
RECURSIVE CsvLoop(_, _, _, _, _)
CsvLoop(data_matrix, sdd, index_range, pos, st) ==
    IF pos >= index_range[2] THEN st.csv_file_data
    ELSE LET columns == 2..Len(data_matrix)
             reset == pos % st.decimation_factor = 0
             sum_values == [i \in columns |->
                 (IF reset THEN 0 ELSE st.sum_values[i])
                 + (IF NotNaN(PyIndex(data_matrix[i], pos))
                    THEN PyIndex(data_matrix[i], pos).num ELSE 0)]
             sum_length == [i \in columns |->
                 (IF reset THEN 0 ELSE st.sum_length[i])
                 + (IF NotNaN(PyIndex(data_matrix[i], pos)) THEN 1 ELSE 0)]
             members == Append(IF reset THEN <<>> ELSE st.members, pos)
             emit == (pos + 1) % st.decimation_factor = 0
             row == [time |-> PyIndex(data_matrix[1], pos),
                     avg |-> [i \in columns |->
                                [n |-> sum_values[i], d |-> sum_length[i]]],
                     members |-> members,
                     factor |-> st.decimation_factor]
             change == emit /\ pos > st.section_start
         IN  CsvLoop(data_matrix, sdd, index_range, pos + 1,
                     [decimation_factor |->
                          IF change THEN FactorAt(sdd, index_range, st.section_start)
                          ELSE st.decimation_factor,
                      section_start |-> IF change THEN Head(st.section_starts)
                                        ELSE st.section_start,
                      section_starts |-> IF change THEN Tail(st.section_starts)
                                         ELSE st.section_starts,
                      sum_values |-> sum_values,
                      sum_length |-> sum_length,
                      members |-> members,
                      csv_file_data |-> IF emit THEN Append(st.csv_file_data, row)
                                        ELSE st.csv_file_data])

\* LogDB.get_csv: the header and the rows.  section_decimation_definitions
\* is the list of the entries [position, factor] of the dictionary in the
\* order the dictionary lists them (empty for None)
get_csv(d, key_patterns, start, end, section_decimation_definitions) ==
    LET labels == get_labels_from_spec(d, key_patterns)
        data_matrix == [i \in 1..Len(labels) |-> d.data[labels[i]]]
        index_range == get_index_range(d, start, end)
        length == Len(data_matrix[1])
        section_starts ==
            [i \in 1..Len(section_decimation_definitions) |->
                get_abs_index(section_decimation_definitions[i].position,
                              index_range)] \o <<length>>
    IN  [labels |-> labels,
         rows |-> CsvLoop(data_matrix, section_decimation_definitions,
                          index_range, index_range[1],
                          [decimation_factor |-> 1,
                           section_start |-> Head(section_starts),
                           section_starts |-> Tail(section_starts),
                           sum_values |-> <<>>, sum_length |-> <<>>,
                           members |-> <<>>, csv_file_data |-> <<>>])]

----------------------------------------------------------------------------
(* Trigger (src/libs/trigger.py) *)

\* Trigger(config, action_functions): the thresholds above and below, the
\* time spans for_ and min_interval in seconds
Trigger(above, below, for_, min_interval) ==
    [above |-> above, below |-> below,
     for_ |-> for_, min_interval |-> min_interval,
     first_trigger_time_above |-> [i \in 1..Len(above) |-> None],
     first_trigger_time_below |-> [i \in 1..Len(below) |-> None],
     trigger_index_above |-> -1,
     trigger_index_below |-> -1,
     last_alert_trigger |-> None]

\* A first trigger time that is never cleared
FirstTriggerTimeKept(first, beyond, current_time) ==
    IF first = None /\ beyond THEN current_time ELSE first

\* first_trigger_time of one threshold after a log call; beyond: the value
\* of the call is past the threshold
FirstTriggerTime(first, beyond, current_time) ==
    IF ~beyond THEN None
    ELSE IF first = None THEN current_time ELSE first

\* The index, from 0, of the last threshold that the values have passed for
\* for_ seconds; -1 if there is none
TriggerIndex(first_trigger_time, for_, current_time) ==
    LET met == {i \in DOMAIN first_trigger_time :
                   /\ first_trigger_time[i] # None
                   /\ current_time >= first_trigger_time[i] + for_}
    IN  IF met = {} THEN -1
        ELSE (CHOOSE i \in met : \A j \in met : j <= i) - 1

\* A trigger that is active after the minimum interval only
TriggerActiveByInterval(trig, trigger_index_above, trigger_index_below, current_time) ==
    /\ trigger_index_above >= 0 \/ trigger_index_below >= 0
    /\ trig.last_alert_trigger # None
    /\ current_time >= trig.last_alert_trigger + trig.min_interval

\* trigger_active of a log call with the indexes it has found
TriggerActive(trig, trigger_index_above, trigger_index_below, current_time) ==
    /\ trigger_index_above >= 0 \/ trigger_index_below >= 0
    /\ \/ /\ trig.last_alert_trigger # None
          /\ current_time >= trig.last_alert_trigger + trig.min_interval
       \/ trig.trigger_index_above # trigger_index_above
       \/ trig.trigger_index_below # trigger_index_below

\* Trigger._log_and_check_trigger(value) at the time current_time: the
\* trigger after the call and the value returned
log_and_check_trigger(trig, value, current_time) ==
    LET first_above == [i \in DOMAIN trig.above |->
                          FirstTriggerTime(trig.first_trigger_time_above[i],
                                           value > trig.above[i], current_time)]
        first_below == [i \in DOMAIN trig.below |->
                          FirstTriggerTime(trig.first_trigger_time_below[i],
                                           value < trig.below[i], current_time)]
        trigger_index_above == TriggerIndex(first_above, trig.for_, current_time)
        trigger_index_below == TriggerIndex(first_below, trig.for_, current_time)
        trigger_active == TriggerActive(trig, trigger_index_above,
                                        trigger_index_below, current_time)
    IN  [trig |-> [trig EXCEPT
                      !.first_trigger_time_above = first_above,
                      !.first_trigger_time_below = first_below,
                      !.trigger_index_above = trigger_index_above,
                      !.trigger_index_below = trigger_index_below,
                      !.last_alert_trigger =
                          IF trigger_active THEN current_time ELSE @],
         trigger_active |-> trigger_active]

----------------------------------------------------------------------------
(* Inputs *)

\* Label lists a caller may request ("Time" is prepended by
\* LogDB.__init__): with one sensor label; the lists without repetition
\* over two sensor labels; a list and its extension
LabelLists == {<<>>, <<"a">>}
GrowLabelLists == {<<>>, <<"a">>, <<"b">>, <<"a", "b">>, <<"b", "a">>}
RetLabelLists == {<<"a">>, <<"a", "b">>}

\* Values of a record: missing (NaN), or a number of one or two digits
DataValues == {NaN, Num(7), Num(12)}
GrowValues == {Num(7)}
RetValues == {NaN, Num(7)}
MemValues == {Num(7)}

\* Chunk sizes of the restores of a run, in bytes: less than a line, about
\* a line, more than the file
ReloadSizes == {1, MaxChunk, INIT_RELOAD_SIZE}

\* Count caps of a store restored from a file, and the count cap of the
\* store without file: the smallest for which 1.1 times the cap leaves
\* room for a record above the cap
RetCaps == {1, 2}
MemCap == 10
MemInserts == MemCap + 3

\* The clock: the n-th record is inserted at second 9 + n, so that the
\* time stamps differ and change their width
Tstamps == {9 + Len(hist)}

\* Positional records for a label list
Lists(labels, values) ==
    {[kind |-> "list", v |-> v] : v \in [1..(Len(labels) - 1) -> values]}

NoPrev == [none |-> TRUE]

\* No call of the store is in progress
NoCall == [pc |-> "idle"]
NoThreads == [w |-> NoCall, r |-> NoCall]

IsOpen == db # Closed
HasCsv == IsOpen /\ db.logdbcsv # NoCsv

\* The store is the one that created its file (no header was read)
Created == HasCsv /\ db.logdbcsv.header_length = None

\* The value a data set holds for a label
ValueOf(data_set, label) ==
    IF label \in DOMAIN data_set THEN data_set[label] ELSE NaN

\* Number of resident records
Resident == Len(db.data["Time"])

----------------------------------------------------------------------------
(* Actions.  file: the CSV file on disk.  db: the LogDB object, Closed
   when there is none.  hist: the data sets inserted so far into the file,
   or into the store if it has no file.  prev: the labels and columns of
   the store before the operation that replaced it *)

Init ==
    /\ file = Absent
    /\ db = Closed
    /\ hist = <<>>
    /\ prev = NoPrev
    /\ thr = NoThreads

\* ldb = LogDB(label_specs, file, number_retention_records, retention_time,
\*             log_delta)  with  _LogDbCsv.INIT_RELOAD_SIZE = reload_size
Construct(label_specs, with_file, number_retention_records, retention_time, log_delta, reload_size) ==
    /\ db = Closed
    /\ LET r == LogDB_init(file, label_specs, with_file,
                           number_retention_records, retention_time,
                           log_delta, reload_size)
       IN  /\ db' = IF r.ok THEN r.db ELSE Closed
           /\ file' = r.file
           /\ hist' = IF with_file /\ file # Absent /\ r.backup = Absent
                      THEN hist ELSE <<>>
    /\ UNCHANGED <<prev, thr>>

\* ldb.insert(log_data, tstamp)
InsertData(log_data, tstamp) ==
    /\ IsOpen
    /\ Len(hist) < (IF HasCsv THEN MaxLines ELSE MemInserts)
    /\ LET r == LogDB_insert(db, file, log_data, tstamp)
       IN  /\ db' = r.db
           /\ file' = r.file
           /\ hist' = IF r.ok THEN Append(hist, r.data_set) ELSE hist
    /\ prev' = NoPrev
    /\ UNCHANGED thr

\* del ldb; prev keeps the labels and the columns of a closed store that
\* had created its file
Close ==
    /\ IsOpen
    /\ db' = Closed
    /\ prev' = IF Created THEN [labels |-> db.labels, data |-> db.data]
                ELSE NoPrev
    /\ UNCHANGED <<file, hist, thr>>

Open ==
    \E label_specs \in LabelLists, log_delta \in BOOLEAN,
       reload_size \in ReloadSizes :
        Construct(label_specs, TRUE, None, None, log_delta, reload_size)

Insert ==
    /\ IsOpen
    /\ \E log_data \in Lists(db.labels, DataValues), tstamp \in Tstamps :
          InsertData(log_data, tstamp)

Next == Open \/ Insert \/ Close

Spec == Init /\ [][Next]_vars

\* The same operations with two sensor labels: the label list grows and
\* changes its order from one open to the next
OpenGrow ==
    \E label_specs \in GrowLabelLists, log_delta \in BOOLEAN :
        Construct(label_specs, TRUE, None, None, log_delta, INIT_RELOAD_SIZE)

InsertGrow ==
    /\ IsOpen
    /\ \E log_data \in Lists(db.labels, GrowValues), tstamp \in Tstamps :
          InsertData(log_data, tstamp)

NextGrow == OpenGrow \/ InsertGrow \/ Close

SpecGrow == Init /\ [][NextGrow]_vars

\* The same operations with a count cap: a store on the file, and a store
\* without file before the file exists
OpenRet ==
    \E with_file \in BOOLEAN, label_specs \in RetLabelLists,
       log_delta \in BOOLEAN, number_retention_records \in RetCaps \cup {MemCap} :
        /\ IF with_file THEN number_retention_records \in RetCaps
           ELSE /\ file = Absent
                /\ label_specs = <<"a">>
                /\ ~log_delta
                /\ number_retention_records = MemCap
        /\ Construct(label_specs, with_file, number_retention_records, None,
                     log_delta, INIT_RELOAD_SIZE)

InsertRet ==
    /\ IsOpen
    /\ \E log_data \in Lists(db.labels, IF HasCsv THEN RetValues ELSE MemValues),
          tstamp \in Tstamps :
          InsertData(log_data, tstamp)

NextRet == OpenRet \/ InsertRet \/ Close

SpecRet == Init /\ [][NextRet]_vars

\* A store without file, with a count cap and with or without a duration
\* cap, and inserts for ever; the time stamps are the caller's
LiveCaps == {2, MemCap}
LiveTimes == {None, 1}
LiveTstamps == {9, 12}

InitLive ==
    /\ file = Absent
    /\ hist = <<>>
    /\ prev = NoPrev
    /\ thr = NoThreads
    /\ db \in {LogDB_init(Absent, <<>>, FALSE, number_retention_records,
                          retention_time, FALSE, INIT_RELOAD_SIZE).db :
                  number_retention_records \in LiveCaps,
                  retention_time \in LiveTimes}

\* ldb.insert([], tstamp); prev keeps the store before the call
InsertLive ==
    \E tstamp \in LiveTstamps :
        LET r == LogDB_insert(db, file, [kind |-> "list", v |-> <<>>], tstamp)
        IN  /\ db' = r.db
            /\ prev' = [labels |-> db.labels, data |-> db.data]
            /\ UNCHANGED <<file, hist, thr>>

NextLive == InsertLive

SpecLive == InitLive /\ [][NextLive]_vars /\ WF_vars(InsertLive)

\* Arguments of insert of every shape: lists of any length up to one more
\* than the sensor labels, a tuple and a string (neither list nor mapping),
\* a mapping of one label and a mapping of more keys than the store has
\* labels
ShapeLabelLists == {<<"a">>, <<"a", "b">>}
ShapeKinds == {"list", "tuple", "str", "dict"}
ShapeArgs(kind, labels) ==
    IF kind = "list"
    THEN UNION {[1..n -> GrowValues] : n \in 0..Len(labels)}
    ELSE IF kind = "tuple" THEN {[i \in 1..(Len(labels) - 1) |-> Num(7)]}
    ELSE IF kind = "str" THEN {<<>>}
    ELSE {[label \in keys |-> Num(7)] : keys \in {{"a"}, {"a", "b", "c"}}}

OpenShape ==
    \E label_specs \in ShapeLabelLists, with_file \in BOOLEAN :
        /\ with_file \/ file = Absent
        /\ Construct(label_specs, with_file, None, None, FALSE, INIT_RELOAD_SIZE)

\* ldb.insert(log_data, tstamp); prev keeps the argument and whether the
\* call raised
InsertShape ==
    /\ IsOpen
    /\ Len(hist) < MaxLines
    /\ \E kind \in ShapeKinds, tstamp \in Tstamps :
       \E v \in ShapeArgs(kind, db.labels) :
          LET log_data == [kind |-> kind, v |-> v]
              r == LogDB_insert(db, file, log_data, tstamp)
          IN  /\ db' = r.db
              /\ file' = r.file
              /\ hist' = IF r.ok THEN Append(hist, r.data_set) ELSE hist
              /\ prev' = [log_data |-> log_data, raised |-> ~r.ok]
    /\ UNCHANGED thr

NextShape == OpenShape \/ InsertShape \/ Close

SpecShape == Init /\ [][NextShape]_vars

\* Files the program did not write: an empty file, a file of one line that
\* is no info line, and such a line followed by a label line and a record
CorruptFiles ==
    {[EmptyFile EXCEPT !.body = body] :
        body \in {<<>>,
                  <<"x", NL>>,
                  <<"x", NL, "T", "i", "m", "e", ",", "a", NL, "9", ",", "7", NL>>}}

\* A label whose text alone is longer than the header lines (2^12 bytes)
Twice(string) == string \o string
LongLabel == Twice(Twice(Twice(Twice(Twice(Twice(Twice(Twice(Twice(Twice(Twice(Twice("x"))))))))))))
HdrLabelLists == {<<>>, <<"a">>, <<"a", LongLabel>>}

\* The file is absent or is not the program's when the first store opens
InitHdr ==
    /\ file \in {Absent} \cup CorruptFiles
    /\ db = Closed
    /\ hist = <<>>
    /\ prev = NoPrev
    /\ thr = NoThreads

\* ldb = LogDB(label_specs, file, log_delta=log_delta); prev keeps the
\* arguments of the call, the file the call found and the file it renamed
OpenHdr ==
    \E label_specs \in HdrLabelLists, log_delta \in BOOLEAN :
        /\ db = Closed
        /\ LET r == LogDB_init(file, label_specs, TRUE, None, None, log_delta, INIT_RELOAD_SIZE)
           IN  /\ db' = IF r.ok THEN r.db ELSE Closed
               /\ file' = r.file
               /\ hist' = IF file # Absent /\ r.backup = Absent THEN hist ELSE <<>>
               /\ prev' = [label_specs |-> label_specs, log_delta |-> log_delta,
                           found |-> file, backup |-> r.backup]
        /\ UNCHANGED thr

InsertHdr ==
    /\ IsOpen
    /\ \E log_data \in Lists(db.labels, GrowValues), tstamp \in Tstamps :
          InsertData(log_data, tstamp)

NextHdr == OpenHdr \/ InsertHdr \/ Close

SpecHdr == InitHdr /\ [][NextHdr]_vars

\* The main thread inserts into a store without file while the thread of
\* an HTTP request queries it (src/waveplus_bridge.py, lines 266..284 and
\* 754; src/libs/threadedhttpserver.py).  The interpreter switches between
\* the threads between two operations on a list or on the dictionary of
\* the columns; one step is one such operation.  The value of a record
\* for the sensor label is its time stamp, so that a value tells the
\* record it is from.
MaxTorn == 3
TornCaps == {2}
QueryKinds == {"get", "get_csv"}

InitTorn ==
    /\ file = Absent
    /\ hist = <<>>
    /\ prev = NoPrev
    /\ thr = NoThreads
    /\ db \in {LogDB_init(Absent, <<"a">>, FALSE, number_retention_records,
                          None, FALSE, INIT_RELOAD_SIZE).db :
                  number_retention_records \in TornCaps}

\* LogDB.insert, lines 486..517: the data set of the call
InsertBegin ==
    /\ thr.w.pc = "idle"
    /\ Len(hist) < MaxTorn
    /\ \E tstamp \in Tstamps :
          LET ds == DataSet(db.labels, [kind |-> "list", v |-> <<Num(tstamp)>>], tstamp)
          IN  /\ ds.ok
              /\ thr' = [thr EXCEPT !.w = [pc |-> "append", index |-> 1,
                                           tstamp |-> tstamp,
                                           data_set |-> ds.data_set,
                                           nbr_rec_to_delete |-> 0]]
              /\ hist' = Append(hist, ds.data_set)
    /\ UNCHANGED <<file, db, prev>>

\* LogDB.insert, lines 520..522: one pass of the loop, the append to the
\* list of one label; the list is the object a running get_csv holds.
\* After the last pass the number of records to delete (lines 527..536)
InsertAppend ==
    /\ thr.w.pc = "append"
    /\ LET label == db.labels[thr.w.index]
           d == [db EXCEPT !.data = AppendAll(db.data, <<label>>, thr.w.data_set)]
           nbr_rec_to_delete == NbrRecToDelete(d, thr.w.tstamp)
       IN  /\ db' = d
           /\ thr' = [thr EXCEPT !.w =
                        IF thr.w.index < Len(db.labels)
                        THEN [@ EXCEPT !.index = @ + 1]
                        ELSE IF nbr_rec_to_delete > 0
                        THEN [@ EXCEPT !.pc = "slice", !.index = 1,
                                       !.nbr_rec_to_delete = nbr_rec_to_delete]
                        ELSE NoCall]
    /\ UNCHANGED <<file, hist, prev>>

\* The lists a query holds after the list of label is replaced in the
\* dictionary: get_csv keeps the list it has taken, which is the old one
Detach(r, label, array) ==
    IF r.pc \in {"range", "read"} /\ r.kind = "get_csv" /\ r.data_matrix[label].shared
    THEN [r EXCEPT !.data_matrix[label] = [shared |-> FALSE, array |-> array]]
    ELSE r

\* LogDB.insert, lines 537..539: one pass of the loop, a new list without
\* the first records replaces the list of one label in the dictionary
InsertSlice ==
    /\ thr.w.pc = "slice"
    /\ LET label == db.labels[thr.w.index]
       IN  /\ db' = [db EXCEPT !.data = SliceAll(db.data, <<label>>,
                                                 thr.w.nbr_rec_to_delete)]
           /\ thr' = [w |-> IF thr.w.index < Len(db.labels)
                            THEN [thr.w EXCEPT !.index = @ + 1]
                            ELSE NoCall,
                      r |-> Detach(thr.r, label, db.data[label])]
    /\ UNCHANGED <<file, hist, prev>>

\* LogDB.get, line 807, and LogDB.get_csv, lines 728..732: the labels of
\* the query; get_csv takes the lists of the labels from the dictionary
\* and reads the sensor labels of a row before its time (lines 759..765),
\* get reads the labels in their order (lines 813..817)
QueryCall ==
    /\ IsOpen
    /\ thr.r.pc = "idle"
    /\ \E kind \in QueryKinds :
          LET labels == get_labels_from_spec(db, <<{"a", "b"}>>)
          IN  thr' = [thr EXCEPT !.r =
                        [pc |-> "range", kind |-> kind,
                         labels |-> IF kind = "get" THEN labels
                                    ELSE Tail(labels) \o <<Head(labels)>>,
                         data_matrix |-> [label \in Range(labels) |->
                                            [shared |-> TRUE, array |-> <<>>]],
                         index_range |-> <<0, 0>>, pos |-> 0, index |-> 1,
                         data_set |-> <<>>, data_sets |-> <<>>]]
    /\ UNCHANGED <<file, db, hist, prev>>

\* LogDB.get, line 808, and LogDB.get_csv, line 735: the index range, from
\* the length the list of Time has now
QueryRange ==
    /\ thr.r.pc = "range"
    /\ LET index_range == get_index_range(db, PyFrac(0, 1), PyFrac(1, 1))
       IN  thr' = [thr EXCEPT !.r = [@ EXCEPT !.pc = "read",
                                              !.index_range = index_range,
                                              !.pos = index_range[1]]]
    /\ UNCHANGED <<file, db, hist, prev>>

\* LogDB.get, line 816, and LogDB.get_csv, lines 759 and 765: the read of
\* one list at the position of the row; an index out of range raises
\* IndexError; the row is complete after the last label
QueryRead ==
    /\ thr.r.pc = "read"
    /\ LET r == thr.r
           label == r.labels[r.index]
           array == IF r.data_matrix[label].shared THEN db.data[label]
                    ELSE r.data_matrix[label].array
           data_set == Append(r.data_set, PyIndex(array, r.pos))
       IN  thr' = [thr EXCEPT !.r =
                     IF r.pos >= r.index_range[2] THEN [r EXCEPT !.pc = "done"]
                     ELSE IF ~PyIndexOk(array, r.pos)
                     THEN [r EXCEPT !.pc = "IndexError"]
                     ELSE IF r.index < Len(r.labels)
                     THEN [r EXCEPT !.index = @ + 1, !.data_set = data_set]
                     ELSE [r EXCEPT !.index = 1, !.pos = @ + 1,
                                    !.data_set = <<>>,
                                    !.data_sets = Append(@, data_set)]]
    /\ UNCHANGED <<file, db, hist, prev>>

\* The query returns or has raised: the thread of the request ends
QueryReturn ==
    /\ thr.r.pc \in {"done", "IndexError"}
    /\ thr' = [thr EXCEPT !.r = NoCall]
    /\ UNCHANGED <<file, db, hist, prev>>

NextTorn ==
    \/ InsertBegin \/ InsertAppend \/ InsertSlice
    \/ QueryCall \/ QueryRange \/ QueryRead \/ QueryReturn

SpecTorn == InitTorn /\ [][NextTorn]_vars

\* The shutdown of the bridge (src/waveplus_bridge.py, lines 795..796)
\* calls ldb.close().  LogDB defines __init__, __del__, insert and the
\* queries and no close: the call raises AttributeError and the object and
\* its file handle stay as they are.  prev keeps that the call was made
\* and the number of data sets inserted before it.
OpenShut ==
    \E with_file \in BOOLEAN, log_delta \in BOOLEAN :
        /\ with_file \/ (file = Absent /\ ~log_delta)
        /\ Construct(<<"a">>, with_file, None, None, log_delta, INIT_RELOAD_SIZE)

CallClose ==
    /\ IsOpen
    /\ prev' = [close |-> "AttributeError", inserted |-> Len(hist)]
    /\ UNCHANGED <<file, db, hist, thr>>

\* ldb.insert(log_data, tstamp), before and after the call of close
InsertShut ==
    /\ IsOpen
    /\ Len(hist) < MaxLines
    /\ \E log_data \in Lists(db.labels, RetValues), tstamp \in Tstamps :
          LET r == LogDB_insert(db, file, log_data, tstamp)
          IN  /\ db' = r.db
              /\ file' = r.file
              /\ hist' = IF r.ok THEN Append(hist, r.data_set) ELSE hist
    /\ UNCHANGED <<prev, thr>>

NextShut == OpenShut \/ CallClose \/ InsertShut \/ Close

SpecShut == Init /\ [][NextShut]_vars

\* Label selections on stores without file.  A pattern is given by the
\* set of the sensor labels it fully matches; a specification is a list of
\* up to MaxPatterns patterns.  prev keeps the specification and the
\* labels selected by the last call
MaxPatterns == 2
SelLabelLists == {<<"a", "b">>, <<"b", "a">>, <<"a", "b", "c">>}
SelPatterns == SUBSET {"a", "b", "c"}
SelSpecs == UNION {[1..n -> SelPatterns] : n \in 0..MaxPatterns}

InitSel ==
    /\ file = Absent
    /\ hist = <<>>
    /\ prev = NoPrev
    /\ thr = NoThreads
    /\ db \in {LogDB_init(Absent, label_specs, FALSE, None, None, FALSE,
                          INIT_RELOAD_SIZE).db : label_specs \in SelLabelLists}

\* ldb.get_labels_from_spec(label_specs)
Select ==
    /\ \E key_patterns \in SelSpecs :
          prev' = [key_patterns |-> key_patterns,
                   labels |-> get_labels_from_spec(db, key_patterns)]
    /\ UNCHANGED <<file, db, hist, thr>>

NextSel == Select

SpecSel == InitSel /\ [][NextSel]_vars

\* CSV exports with decimation of a store without file that holds up to
\* MaxRecords records; the value of a record for the sensor label is its
\* time stamp or NaN.  The definitions list up to two sections, at the
\* positions 0, 2 and 0.5, with the factors 1, 2 and 3.  prev keeps the
\* definitions and the export of the last call
MaxRecords == 4
CsvPositions == {PyInt(0), PyInt(2), PyFrac(1, 2)}
CsvFactors == {1, 2, 3}
CsvSections == [position : CsvPositions, factor : CsvFactors]
CsvDefinitions ==
    {<<>>} \cup {<<s>> : s \in CsvSections}
           \cup {<<s, t>> : s \in CsvSections, t \in CsvSections}

InitCsv ==
    /\ file = Absent
    /\ hist = <<>>
    /\ prev = NoPrev
    /\ thr = NoThreads
    /\ db = LogDB_init(Absent, <<"a">>, FALSE, None, None, FALSE, INIT_RELOAD_SIZE).db

InsertCsv ==
    /\ Len(hist) < MaxRecords
    /\ \E tstamp \in Tstamps :
       \E value \in {NaN, Num(tstamp)} :
          LET r == LogDB_insert(db, file, [kind |-> "list", v |-> <<value>>], tstamp)
          IN  /\ db' = r.db
              /\ hist' = Append(hist, r.data_set)
    /\ prev' = NoPrev
    /\ UNCHANGED <<file, thr>>

\* ldb.get_csv(section_decimation_definitions=...)
Export ==
    /\ \E definitions \in CsvDefinitions :
          /\ Len(definitions) = 2 => definitions[1].position # definitions[2].position
          /\ prev' = [definitions |-> definitions,
                      csv |-> get_csv(db, <<{"a", "b"}>>, PyFrac(0, 1),
                                      PyFrac(1, 1), definitions)]
    /\ UNCHANGED <<file, db, hist, thr>>

NextCsv == InsertCsv \/ Export

SpecCsv == InitCsv /\ [][NextCsv]_vars

\* Log calls of a trigger.  db is the Trigger object, hist the calls of
\* log in their order: the time of the call, its value, the indexes found
\* and whether the action functions have been called.  The clock reads
\* whole seconds and never goes back; two calls can read the same time.
\* The trigger has one or two thresholds above or one threshold below, a
\* delay of 0 or 2 seconds and a minimum interval of 0 or 3 seconds
MaxCalls == 4
TrigValues == {5, 15, 25}
TrigSteps == {0, 1, 2}
TrigFor == {0, 2}
TrigMinInterval == {0, 3}
TrigThresholds ==
    {[above |-> <<10>>, below |-> <<>>], [above |-> <<10, 20>>, below |-> <<>>],
     [above |-> <<>>, below |-> <<10>>]}

InitTrig ==
    /\ file = Absent
    /\ hist = <<>>
    /\ prev = NoPrev
    /\ thr = NoThreads
    /\ \E t \in TrigThresholds, for_ \in TrigFor, min_interval \in TrigMinInterval :
          db = Trigger(t.above, t.below, for_, min_interval)

\* time.time() of the last call of log
LastTime == IF hist = <<>> THEN 0 ELSE hist[Len(hist)].time

\* trig.log(value)
Log ==
    /\ Len(hist) < MaxCalls
    /\ \E value \in TrigValues, step \in TrigSteps :
          LET current_time == LastTime + step
              r == log_and_check_trigger(db, value, current_time)
          IN  /\ db' = r.trig
              /\ hist' = Append(hist, [time |-> current_time, value |-> value,
                                       index_above |-> r.trig.trigger_index_above,
                                       index_below |-> r.trig.trigger_index_below,
                                       action |-> r.trigger_active])
    /\ UNCHANGED <<file, prev, thr>>

NextTrig == Log

SpecTrig == InitTrig /\ [][NextTrig]_vars

\* The steps of an insert into a store with a file: the write of the line
\* and the appends to the lists, label by label.  The write can fail (the
\* disk is full, the device fails): write or flush raises an exception
\* after none or some of the bytes of the line have reached the file, and
\* the exception ends the insert.  prev keeps the number of data lines of
\* the file and of records of the store at construction, and whether a
\* write has failed; at most one write fails, and the file gets up to
\* MaxWrites lines
MaxWrites == 2

OpenFile ==
    \E log_delta \in BOOLEAN :
        /\ db = Closed
        /\ thr.w.pc = "idle"
        /\ LET r == LogDB_init(file, <<"a">>, TRUE, None, None, log_delta, INIT_RELOAD_SIZE)
           IN  /\ db' = IF r.ok THEN r.db ELSE Closed
               /\ file' = r.file
               /\ hist' = IF file # Absent /\ r.backup = Absent THEN hist ELSE <<>>
               /\ prev' = [lines |-> Cardinality({i \in DOMAIN r.file.body :
                                                     r.file.body[i] = NL}),
                           records |-> IF r.ok THEN Len(r.db.data["Time"]) ELSE 0,
                           failed |-> prev # NoPrev /\ prev.failed]
        /\ thr' = NoThreads

\* LogDB.insert, lines 486..517: the data set of the call and its line in
\* the file (_LogDbCsv.insert)
InsertWrite ==
    /\ HasCsv
    /\ thr.w.pc = "idle"
    /\ Len(hist) < MaxWrites
    /\ \E log_data \in Lists(db.labels, RetValues), tstamp \in Tstamps :
          LET ds == DataSet(db.labels, log_data, tstamp)
              csv == db.logdbcsv
          IN  /\ ds.ok
              /\ file' = [file EXCEPT !.body = @ \o CsvLine(csv, ds.data_set)]
              /\ db' = [db EXCEPT !.logdbcsv.last_data_set =
                                      LastDataSet(csv, ds.data_set)]
              /\ thr' = [thr EXCEPT !.w = [pc |-> "append", index |-> 1,
                                           tstamp |-> tstamp,
                                           data_set |-> ds.data_set,
                                           nbr_rec_to_delete |-> 0]]
              /\ hist' = Append(hist, ds.data_set)
    /\ UNCHANGED prev

\* The same with a write that fails: written bytes of the line are in the
\* file, the exception leaves LogDB.insert at line 517
InsertWriteFails ==
    /\ HasCsv
    /\ thr.w.pc = "idle"
    /\ Len(hist) < MaxWrites
    /\ ~prev.failed
    /\ \E log_data \in Lists(db.labels, RetValues), tstamp \in Tstamps :
          LET ds == DataSet(db.labels, log_data, tstamp)
              csv == db.logdbcsv
              line == CsvLine(csv, ds.data_set)
          IN  /\ ds.ok
              /\ \E written \in 0..(Len(line) - 1) :
                    file' = [file EXCEPT !.body = @ \o SubSeq(line, 1, written)]
              /\ db' = [db EXCEPT !.logdbcsv.last_data_set =
                                      LastDataSet(csv, ds.data_set)]
              /\ thr' = [thr EXCEPT !.w = [pc |-> "idle", raised |-> "OSError"]]
    /\ prev' = [prev EXCEPT !.failed = TRUE]
    /\ UNCHANGED hist

\* The store is closed between two inserts
CloseIdle ==
    /\ IsOpen
    /\ thr.w.pc = "idle"
    /\ db' = Closed
    /\ thr' = NoThreads
    /\ UNCHANGED <<file, hist, prev>>

NextWrite == OpenFile \/ InsertWrite \/ InsertWriteFails \/ InsertAppend \/ CloseIdle

SpecWrite == Init /\ [][NextWrite]_vars

\* The fields of one column of a file, decoded as restore_data decodes
\* them.  hist holds the texts of the fields in the order of the lines,
\* prev the mode of the file, the values of _str2float and the column
\* after the repeated values are filled in
MaxFields == 3
FieldTexts ==
    {<<>>, <<" ">>, <<"n">>, <<" ", "n", " ">>, <<"7">>, <<" ", "7">>,
     <<"-", "7">>, <<"x">>, <<"i", "n", "f">>}

InitDecode ==
    /\ file = Absent
    /\ db = Closed
    /\ hist = <<>>
    /\ thr = NoThreads
    /\ \E log_delta \in BOOLEAN :
          prev = [log_delta |-> log_delta, values |-> <<>>, column |-> <<>>]

\* One more line: restore_data, lines 262..265 and 283..292
Decode ==
    /\ Len(hist) < MaxFields
    /\ \E string \in FieldTexts :
          LET values == Append(prev.values, str2float(string, prev.log_delta))
          IN  /\ hist' = Append(hist, string)
              /\ prev' = [prev EXCEPT
                             !.values = values,
                             !.column = FinishColumn([log_delta |-> prev.log_delta],
                                                     Reverse(values))]
    /\ UNCHANGED <<file, db, thr>>

NextDecode == Decode

SpecDecode == InitDecode /\ [][NextDecode]_vars

\* Files with one record whose info line is or is not the program's: the
\* version differs, the second part is no version, the first part or the
\* mode is wrong, a part is missing or added
InfoLines ==
    {<<"logdbcsv", "version=1.0", "delta=0">>,
     <<"logdbcsv", "version=2.0", "delta=1">>,
     <<"logdbcsv", "x", "delta=0">>,
     <<"logdb", "version=1.0", "delta=0">>,
     <<"logdbcsv", "version=1.0", "delta=2">>,
     <<"logdbcsv", "delta=0">>,
     <<"logdbcsv", "version=1.0", "delta=0", "x">>}
InfoFiles ==
    {[hdr |-> TRUE, info |-> info, labels |-> <<"Time", "a">>, pad |-> 0,
      body |-> <<"9", ",", "7", NL>>] : info \in InfoLines}

InitInfo ==
    /\ file \in InfoFiles
    /\ db = Closed
    /\ hist = <<>>
    /\ prev = NoPrev
    /\ thr = NoThreads

\* ldb = LogDB(["a"], file, log_delta=log_delta); prev as in OpenHdr
OpenInfo ==
    \E log_delta \in BOOLEAN :
        /\ db = Closed
        /\ LET r == LogDB_init(file, <<"a">>, TRUE, None, None, log_delta, INIT_RELOAD_SIZE)
           IN  /\ db' = IF r.ok THEN r.db ELSE Closed
               /\ file' = r.file
               /\ hist' = IF r.backup = Absent THEN hist ELSE <<>>
               /\ prev' = [label_specs |-> <<"a">>, log_delta |-> log_delta,
                           found |-> file, backup |-> r.backup]
        /\ UNCHANGED thr

InsertInfo ==
    /\ IsOpen
    /\ Len(hist) < MaxWrites
    /\ \E log_data \in Lists(db.labels, RetValues), tstamp \in Tstamps :
          InsertData(log_data, tstamp)

NextInfo == OpenInfo \/ InsertInfo \/ Close

SpecInfo == InitInfo /\ [][NextInfo]_vars

\* Inserts into a store without file that has a duration cap, with or
\* without a count cap, at time stamps in any order.  The value of a
\* record for the sensor label is the number of the insert.  prev keeps
\* the lists before the last insert, its time stamp and the number of
\* inserts, which is at most MaxAge
MaxAge == 5
AgeCaps == {None, 2}
AgeTimes == {1, 2}
AgeTstamps == {9, 10, 11, 12}

InitAge ==
    /\ file = Absent
    /\ hist = <<>>
    /\ thr = NoThreads
    /\ prev = [data |-> [label \in {"Time", "a"} |-> <<>>], tstamp |-> 0, count |-> 0]
    /\ db \in {LogDB_init(Absent, <<"a">>, FALSE, number_retention_records,
                          retention_time, FALSE, INIT_RELOAD_SIZE).db :
                  number_retention_records \in AgeCaps,
                  retention_time \in AgeTimes}

\* ldb.insert([count], tstamp)
InsertAge ==
    /\ prev.count < MaxAge
    /\ \E tstamp \in AgeTstamps :
          LET r == LogDB_insert(db, file, [kind |-> "list", v |-> <<Num(prev.count + 1)>>], tstamp)
          IN  /\ db' = r.db
              /\ prev' = [data |-> db.data, tstamp |-> tstamp, count |-> prev.count + 1]
    /\ UNCHANGED <<file, hist, thr>>

NextAge == InsertAge

SpecAge == InitAge /\ [][NextAge]_vars

\* Calls of get_abs_index: prev keeps the arguments and the result of the
\* last call.  The fractions are halves and
\* quarters, which the floats of the program hold and multiply exactly,
\* and the tenths 0.3 and -0.7
IdxPositions ==
    {[float |-> FALSE, n |-> n, d |-> 1] : n \in {-70, -5, -1, 0, 1, 5, 30}}
        \cup {[float |-> TRUE, n |-> n, d |-> 1] : n \in {-1, 0, 1}}
        \cup {[float |-> TRUE, n |-> n, d |-> 2] : n \in {-3, -1, 1, 3}}
        \cup {[float |-> TRUE, n |-> n, d |-> 4] : n \in {-3, -1, 1, 3}}
        \cup {[float |-> TRUE, n |-> 3, d |-> 10], [float |-> TRUE, n |-> -7, d |-> 10]}
IdxRanges == {<<100, 200>>, <<0, 0>>, <<0, 3>>, <<2, 5>>, <<0, 10>>, <<7, 7>>}

InitIdx ==
    /\ file = Absent
    /\ db = Closed
    /\ hist = <<>>
    /\ prev = NoPrev
    /\ thr = NoThreads

\* LogDB.get_abs_index(position, index_range)
Resolve ==
    /\ \E position \in IdxPositions, index_range \in IdxRanges :
          prev' = [position |-> position, index_range |-> index_range,
                   index |-> get_abs_index(position, index_range)]
    /\ UNCHANGED <<file, db, hist, thr>>

NextIdx == Resolve

SpecIdx == InitIdx /\ [][NextIdx]_vars

\* Records of every content for a store of the labels a and g:b: a number,
\* the string the device reader returns for an invalid radon value
\* (waveplus.py, _conv2radon) and the empty string; lists of the two
\* values and a list of one; mappings that are flat, nested or mixed, with
\* declared keys only, with a key that is no label, and with more keys
\* than the store has labels
RecLabels == <<"a", "g:b">>
NotAvailable == [str |-> "N/A"]
RecValues == {Num(7), NotAvailable, EmptyStr}
RecKinds == {"list", "dict"}
RecArgs(kind) ==
    IF kind = "list"
    THEN [1..2 -> RecValues] \cup {<<Num(7)>>}
    ELSE {[a |-> Num(7)],
          [a |-> NotAvailable],
          [g |-> [dict |-> [b |-> Num(7)]]],
          [a |-> Num(12), g |-> [dict |-> [b |-> Num(7)]]],
          [c |-> Num(7)],
          [g |-> [dict |-> [c |-> Num(7)]]],
          [a |-> Num(7), g |-> [dict |-> [c |-> Num(12)]]],
          [a |-> Num(7), c |-> Num(7), g |-> [dict |-> [b |-> Num(7)]]]}

OpenRec ==
    \E with_file \in BOOLEAN, log_delta \in BOOLEAN :
        /\ with_file \/ file = Absent
        /\ Construct(RecLabels, with_file, None, None, log_delta, INIT_RELOAD_SIZE)

\* ldb.insert(log_data, tstamp); hist keeps the data set of every call,
\* prev the argument and whether the call raised
InsertRec ==
    /\ IsOpen
    /\ Len(hist) < MaxWrites
    /\ \E kind \in RecKinds, tstamp \in Tstamps :
       \E v \in RecArgs(kind) :
          LET log_data == [kind |-> kind, v |-> v]
              r == LogDB_insert(db, file, log_data, tstamp)
          IN  /\ db' = r.db
              /\ file' = r.file
              /\ hist' = Append(hist, r.data_set)
              /\ prev' = [log_data |-> log_data, raised |-> ~r.ok]
    /\ UNCHANGED thr

NextRec == OpenRec \/ InsertRec \/ Close

SpecRec == Init /\ [][NextRec]_vars

\* Queries of a store without file that holds up to MaxRecords records,
\* with start and end positions of either sign, integer and fractional,
\* inside the store and beyond its ends.  prev keeps the positions, the
\* index range and the results of the last call of get and of get_csv;
\* raised: the call has ended with IndexError
WinPositions ==
    {PyInt(n) : n \in {-4, -1, 0, 2, 5}}
        \cup {PyFrac(n, 2) : n \in {-3, -1, 0, 2, 3}}

\* ldb.get(start=start, end=end) and ldb.get_csv(start=start, end=end)
Query ==
    /\ \E start \in WinPositions, end \in WinPositions :
          LET got == get(db, <<{"a", "b"}>>, start, end)
          IN  prev' = [start |-> start, end |-> end,
                       index_range |-> get_index_range(db, start, end),
                       raised |-> ~got.ok,
                       data_sets |-> IF got.ok THEN got.data_sets ELSE <<>>,
                       rows |-> IF got.ok
                                THEN get_csv(db, <<{"a", "b"}>>, start, end,
                                             <<>>).rows
                                ELSE <<>>]
    /\ UNCHANGED <<file, db, hist, thr>>

NextWin == InsertCsv \/ Query

SpecWin == InitCsv /\ [][NextWin]_vars

----------------------------------------------------------------------------
(* Round trips through the file (Spec) *)

\* The store has just been restored from the file its predecessor created
\* and closed
Reopened == IsOpen /\ prev # NoPrev

\* Column label holds, position by position, the values of the data sets
\* in hist (NaN where a data set has no value for the label)
Mirrors(label) ==
    /\ Len(db.data[label]) = Len(hist)
    /\ \A i \in 1..Len(hist) : db.data[label][i] = ValueOf(hist[i], label)

\* A data line of the file holds the time stamp only
TimeOnlyLine ==
    /\ file # Absent
    /\ \E line \in Range(Split(file.body, NL)) :
          Strip(line) # <<>> /\ "," \notin Range(line)

\* C1: a store on a new file in absolute mode, closed and reopened with
\* the same labels and no retention cap, holds columns equal to the columns
\* held before closing, position by position and label by label
C1_AbsoluteRoundTrip ==
    (Reopened /\ ~db.logdbcsv.log_delta /\ db.labels = prev.labels)
        => db.data = prev.data

\* C1 for the stores with a sensor label
C1_AbsoluteRoundTripSensors ==
    (Reopened /\ ~db.logdbcsv.log_delta /\ db.labels = prev.labels
              /\ Len(db.labels) >= 2)
        => db.data = prev.data

C1_Reopened3 ==
    /\ Reopened /\ ~db.logdbcsv.log_delta /\ db.labels = prev.labels
    /\ Len(db.labels) >= 2
    /\ prev.data["a"] = <<Num(7), NaN, Num(12)>>

\* C2: in delta mode, whatever the inserted values and however many times
\* the store was closed and reopened between the inserts, an uncapped
\* restore yields for every label and every position the value inserted
\* at that position
C2_DeltaRoundTrip ==
    (HasCsv /\ ~Created /\ db.logdbcsv.log_delta)
        => \A label \in Range(db.labels) : Mirrors(label)

\* C2 for the files without a line that holds the time stamp only
C2_DeltaRoundTripSensors ==
    (HasCsv /\ ~Created /\ db.logdbcsv.log_delta /\ ~TimeOnlyLine)
        => \A label \in Range(db.labels) : Mirrors(label)

C2_RepeatedRestored ==
    /\ HasCsv /\ ~Created /\ db.logdbcsv.log_delta /\ ~TimeOnlyLine
    /\ Len(db.labels) >= 2
    /\ db.data["a"] = <<Num(7), Num(7), NaN>>

\* The columns a store with the labels label_specs and the count cap
\* number_retention_records restores from the file with chunks of
\* reload_size bytes
Restored(label_specs, number_retention_records, reload_size) ==
    LET r == LogDB_init(file, label_specs, TRUE, number_retention_records,
                        None, FALSE, reload_size)
    IN  [ok |-> r.ok, data |-> r.db.data]

\* C3: for a file a store has written and closed, a restore with an initial
\* chunk size of 1 byte or more yields the columns of the restore that
\* reads the data region in one chunk
C3_ChunkedRestore ==
    (db = Closed /\ file # Absent)
        => \A label_specs \in LabelLists,
              number_retention_records \in {None} \cup RetCaps,
              reload_size \in 1..MaxChunk :
              Restored(label_specs, number_retention_records, reload_size)
                = Restored(label_specs, number_retention_records,
                           INIT_RELOAD_SIZE)

\* A store restored three records, with chunks that started at one byte
C3_RestoredByteWise ==
    /\ Reopened /\ db.logdbcsv.reload_size = 1
    /\ Len(db.labels) >= 2
    /\ db.data["a"] = <<Num(12), NaN, Num(7)>>

----------------------------------------------------------------------------
(* Label lists that grow (SpecGrow) *)

IsPrefix(s, t) == Len(s) <= Len(t) /\ SubSeq(t, 1, Len(s)) = s

\* C5: a store reopened with a superset of the labels of the file holds,
\* for the old labels, the values recorded before, NaN for the new labels
\* at the records written before the extension, and the inserted values
\* at the records inserted after it
C5_SchemaGrowth ==
    (HasCsv /\ ~Created /\ Range(db.logdbcsv.labels) \subseteq Range(db.labels))
        => \A label \in Range(db.labels) : Mirrors(label)

\* C5 for the files without a line that holds the time stamp only
C5_SchemaGrowthSensors ==
    (HasCsv /\ ~Created /\ Range(db.logdbcsv.labels) \subseteq Range(db.labels)
            /\ ~TimeOnlyLine)
        => \A label \in Range(db.labels) : Mirrors(label)

C5_Extended ==
    /\ HasCsv /\ ~Created /\ ~TimeOnlyLine
    /\ db.labels = <<"Time", "a", "b">>
    /\ db.data["a"] = <<Num(7), Num(7)>>
    /\ db.data["b"] = <<NaN, Num(7)>>

\* C10: the label sequence in the header before an open of a file with a
\* valid info line is a prefix of the label sequence in the header after it
C10_LabelsOnlyGrow ==
    [][(db = Closed /\ file # Absent /\ InfoValid(ReadInfo(file)))
          => IsPrefix(ReadLabels(file), ReadLabels(file'))]_vars

\* A store with the label a, open on a file whose only record was written
\* when the header had the label b only
C10_HeaderExtended ==
    /\ HasCsv /\ db.labels = <<"Time", "a">>
    /\ ReadLabels(file) = <<"Time", "b", "a">>
    /\ Len(hist) = 1 /\ DOMAIN hist[1] = {"Time", "b"}

----------------------------------------------------------------------------
(* Count caps (SpecRet) *)

\* The last n entries of a sequence
LastN(s, n) == SubSeq(s, Len(s) - Min(n, Len(s)) + 1, Len(s))

\* The columns an uncapped store with the labels and the mode of store d
\* restores from file f
Uncapped(f, d) ==
    LogDB_init(f, Tail(d.labels), TRUE, None, None, d.logdbcsv.log_delta,
               INIT_RELOAD_SIZE).db.data

\* The open of a store with a count cap on a file that exists
CappedOpen ==
    /\ db = Closed /\ db' # Closed /\ file # Absent
    /\ db'.number_retention_records # None

\* C4: a store constructed with the count cap k on a file of n records
\* holds min(n, k) records, and its columns are the last min(n, k) entries
\* of the columns of an uncapped restore, in absolute and in delta mode
C4_CappedRestore ==
    [][CappedOpen
          => \A label \in Range(db'.labels) :
                db'.data[label] = LastN(Uncapped(file, db')[label],
                                        db'.number_retention_records)]_vars

\* C4 for the files in absolute mode
C4_CappedRestoreAbsolute ==
    [][(CappedOpen /\ ~db'.logdbcsv.log_delta)
          => \A label \in Range(db'.labels) :
                db'.data[label] = LastN(Uncapped(file, db')[label],
                                        db'.number_retention_records)]_vars

\* C6: with a count cap c the number r of resident records satisfies
\* 10 * r <= 11 * c in every state after construction and inserts
C6_RetentionBound ==
    (IsOpen /\ db.number_retention_records # None)
        => 10 * Resident <= 11 * db.number_retention_records

\* More records than the cap are resident
C6_AboveCap ==
    /\ IsOpen /\ db.number_retention_records # None
    /\ Resident > db.number_retention_records

\* The data set of get() for an inserted data set: the values, not NaN, of
\* the labels of the store
Shown(data_set) ==
    LET valid == {label \in DOMAIN data_set \cap Range(db.labels) :
                     NotNaN(data_set[label])}
    IN  [label \in valid |-> data_set[label]]

\* get() with the default label specification, start and end
GetDefault == get(db, <<{"a", "b"}>>, PyFrac(0, 1), PyFrac(1, 1))

\* C8: with a count cap c, get() with default start and end returns the
\* min(resident, c) most recently inserted records, oldest first, one
\* mapping per record without its NaN entries
C8_DefaultWindow ==
    (IsOpen /\ db.number_retention_records # None)
        => /\ GetDefault.ok
           /\ GetDefault.data_sets
                = [i \in 1..Min(Resident, db.number_retention_records) |->
                     Shown(LastN(hist, Min(Resident, db.number_retention_records))[i])]

\* C8 for the stores that are not restored from a delta log
C8_DefaultWindowAbsolute ==
    (IsOpen /\ db.number_retention_records # None
            /\ (HasCsv => (Created \/ ~db.logdbcsv.log_delta)))
        => /\ GetDefault.ok
           /\ GetDefault.data_sets
                = [i \in 1..Min(Resident, db.number_retention_records) |->
                     Shown(LastN(hist, Min(Resident, db.number_retention_records))[i])]

----------------------------------------------------------------------------
(* Inserts for ever (SpecLive) *)

\* The insert to come makes the size exceed 1.1 times the count cap
Exceeds == 10 * (Resident + 1) > 11 * db.number_retention_records

NoDuration == db.retention_time = None

\* C7: with a count cap c and inserts for ever the resident count is c
\* again and again, and the insert that makes the size exceed 1.1 * c
\* leaves c records
C7_RetentionRecovery ==
    /\ []<>(Resident = db.number_retention_records)
    /\ [][Exceeds => Len(db'.data["Time"]) = db.number_retention_records]_vars

\* C7 for the stores with a count cap and no duration cap
C7_RecoveryCountOnly ==
    /\ []<>(NoDuration => Resident = db.number_retention_records)
    /\ [][(NoDuration /\ Exceeds)
             => Len(db'.data["Time"]) = db.number_retention_records]_vars

\* An insert has trimmed a store without duration cap from above its cap
\* to its cap
C7_Trimmed ==
    /\ prev # NoPrev /\ NoDuration
    /\ db.number_retention_records = MemCap
    /\ Len(prev.data["Time"]) = MemCap + 1
    /\ Resident = MemCap

----------------------------------------------------------------------------
(* Labels of the store and of the file (SpecGrow) *)

GetOf(label_specs) ==
    LET r == LogDB_init(file, label_specs, TRUE, None, None, FALSE,
                        INIT_RELOAD_SIZE)
    IN  [ok |-> r.ok,
         get |-> get(r.db, <<{"a", "b"}>>, PyFrac(0, 1), PyFrac(1, 1))]

\* C12: stores constructed on the same file with the same set of labels in
\* different orders return the same get() result
C12_OrderIndependence ==
    (db = Closed /\ file # Absent)
        => \A l1 \in GrowLabelLists, l2 \in GrowLabelLists :
              Range(l1) = Range(l2) => GetOf(l1) = GetOf(l2)

\* A store that requested b, a on a file with the header Time,a,b whose
\* first record has no value for b; get() returns the records by label
C12_Permuted ==
    /\ HasCsv /\ ~Created
    /\ db.labels = <<"Time", "b", "a">>
    /\ ReadLabels(file) = <<"Time", "a", "b">>
    /\ Len(hist) = 2 /\ DOMAIN hist[1] = {"Time", "a"}
    /\ GetDefault.data_sets = <<[Time |-> Num(9), a |-> Num(7)],
                                [Time |-> Num(10), a |-> Num(7), b |-> Num(7)]>>

----------------------------------------------------------------------------
(* The line of an append (Spec) *)

\* The step is an insert into a store with a file
InsertStep == HasCsv /\ Len(hist') = Len(hist) + 1

\* The bytes the step appends to the file, and the data set it inserts
Appended == SubSeq(file'.body, Len(file.body) + 1, Len(file'.body))
Inserted == hist'[Len(hist')]

\* The step appends exactly one line to the file and changes no byte of
\* the header or of the lines before
OneLineAppended ==
    /\ file'.hdr = file.hdr /\ file'.info = file.info
    /\ file'.labels = file.labels /\ file'.pad = file.pad
    /\ Len(file'.body) > Len(file.body)
    /\ SubSeq(file'.body, 1, Len(file.body)) = file.body
    /\ Appended[Len(Appended)] = NL
    /\ \A i \in 1..(Len(Appended) - 1) : Appended[i] # NL

\* The comma-separated fields of the appended line
AppendedFields == Split(SubSeq(Appended, 1, Len(Appended) - 1), ",")

\* The field is the decimal text of the value
TextOf(field, value) ==
    /\ field # <<>>
    /\ \A i \in 1..Len(field) : field[i] \in Range(DigitChars) \cup {"-"}
    /\ PyFloatOk(field) /\ PyFloat(field) = value

\* C13: in absolute mode every append writes exactly one line with one
\* field per label of the header, in header order: the decimal text of
\* the value of the record, or nothing when the record has no value or NaN
\* for the label, whatever the records before were
C13_AbsoluteLine ==
    [][(InsertStep /\ ~db.logdbcsv.log_delta)
        => /\ OneLineAppended
           /\ Len(AppendedFields) = Len(ReadLabels(file))
           /\ \A i \in 1..Len(ReadLabels(file)) :
                 LET value == ValueOf(Inserted, ReadLabels(file)[i])
                 IN  IF NotNaN(value) THEN TextOf(AppendedFields[i], value)
                     ELSE AppendedFields[i] = <<>>]_vars

\* An absolute file with two lines whose fields for a are equal, and a
\* third line without a value for a
C13_RepeatedAndMissing ==
    /\ HasCsv /\ ~db.logdbcsv.log_delta
    /\ ReadLabels(file) = <<"Time", "a">>
    /\ file.body = <<"9", ",", "7", NL, "1", "0", ",", "7", NL,
                     "1", "1", ",", NL>>

\* C14: in delta mode every append writes one field per label of the
\* header: for a label without remembered value the text of the value or n
\* for NaN; for a label with remembered value nothing when the value
\* equals it, the text when it differs, n when the value is NaN and the
\* remembered value is not, nothing when both are NaN; after the append
\* the remembered value of every label is the value of the record
C14_DeltaLine ==
    [][(InsertStep /\ db.logdbcsv.log_delta)
        => /\ OneLineAppended
           /\ Len(AppendedFields) = Len(ReadLabels(file))
           /\ \A i \in 1..Len(ReadLabels(file)) :
                 LET label == ReadLabels(file)[i]
                     value == ValueOf(Inserted, label)
                     field == AppendedFields[i]
                     last == db.logdbcsv.last_data_set
                 IN  /\ label \in DOMAIN db'.logdbcsv.last_data_set
                     /\ db'.logdbcsv.last_data_set[label] = value
                     /\ IF label \notin DOMAIN last
                        THEN IF NotNaN(value) THEN TextOf(field, value)
                             ELSE field = <<"n">>
                        ELSE IF NotNaN(value)
                        THEN IF last[label] = value THEN field = <<>>
                             ELSE TextOf(field, value)
                        ELSE IF NotNaN(last[label]) THEN field = <<"n">>
                             ELSE field = <<>>]_vars

\* A delta file whose three lines of one store show a first value, a
\* change to NaN and a repeated NaN
C14_ChangeToNaNAndRepeat ==
    /\ HasCsv /\ db.logdbcsv.log_delta
    /\ ReadLabels(file) = <<"Time", "a">>
    /\ file.body = <<"9", ",", "7", NL, "1", "0", ",", "n", NL,
                     "1", "1", ",", NL>>
    /\ db.logdbcsv.last_data_set = [Time |-> Num(11), a |-> NaN]

----------------------------------------------------------------------------
(* The header lines at construction (SpecHdr) *)

\* The step constructs a store on a file that exists
OpenStep == db = Closed /\ file # Absent

\* The label list the step passes to the persistent log
Requested == <<"Time">> \o prev'.label_specs

\* C15: construction on a file whose first line is no info line raises
\* nothing, keeps the old file byte for byte under the backup name and
\* leaves a new file of an info line and a label line that lists the
\* requested labels, without data, whatever the second line of the old
\* file held
C15_CorruptRecovery ==
    [][(OpenStep /\ ~InfoValid(ReadInfo(file)))
        => /\ db' # Closed
           /\ prev'.backup = file
           /\ file'.hdr
           /\ file'.info = InfoLine(prev'.log_delta)
           /\ file'.labels = Requested
           /\ file'.body = <<>>]_vars

\* A store constructed on a file that was renamed
C15_Recovered ==
    /\ HasCsv
    /\ prev # NoPrev /\ prev.backup \in CorruptFiles
    /\ prev.backup.body # <<>>

\* The step constructs a store on a file of the program and asks for
\* labels the header does not have
RewriteStep ==
    /\ OpenStep /\ InfoValid(ReadInfo(file))
    /\ NewLabels(ReadLabels(file), Requested) # <<>>

\* The info line and the label line of the combined labels are longer
\* than the width reserved for them
Oversized ==
    JoinLen(AllLabels(ReadLabels(file), Requested)) + JoinLen(ReadInfo(file))
        > CSV_HEADER_ROW_LENGTH

\* C16: a header that has to be rewritten with a label line longer than
\* the reserved width makes the construction fail, and nothing is written
C16_OversizedHeaderFatal ==
    [][(RewriteStep /\ Oversized) => (db' = Closed /\ file' = file)]_vars

\* A store open on a file whose records were overwritten by the label line
C16_Overwritten ==
    /\ HasCsv /\ prev # NoPrev /\ prev.backup = Absent
    /\ prev.found # Absent /\ prev.found.hdr
    /\ prev.found.body # <<>>
    /\ file.body = <<>>
    /\ HeaderLength(file) > HeaderLength(prev.found)

\* C17: a header rewrite leaves the data region as it was, and the header
\* lines take as many bytes as before
C17_RewriteKeepsData ==
    [][RewriteStep
        => /\ file'.body = file.body
           /\ HeaderLength(file') = HeaderLength(file)
           /\ file'.labels = AllLabels(ReadLabels(file), Requested)]_vars

\* The same for the label lines that fit the reserved width
C17_RewriteKeepsDataFitting ==
    [][(RewriteStep /\ ~Oversized)
        => /\ file'.body = file.body
           /\ HeaderLength(file') = HeaderLength(file)
           /\ file'.labels = AllLabels(ReadLabels(file), Requested)]_vars

\* A store open on a file with records whose header it has extended
C17_Rewritten ==
    /\ HasCsv /\ prev # NoPrev /\ prev.backup = Absent
    /\ prev.found # Absent /\ prev.found.hdr
    /\ prev.found.body # <<>>
    /\ prev.found.labels # file.labels

\* The mode the info line of the file names
FileMode(f) == ReadInfo(f)[3] = "delta=1"

\* The store and the file that construction with the mode log_delta gives
OpenedAs(label_specs, log_delta) ==
    LET r == LogDB_init(file, label_specs, TRUE, None, None, log_delta, INIT_RELOAD_SIZE)
    IN  [ok |-> r.ok, db |-> r.db, file |-> r.file, backup |-> r.backup]

\* C18: construction on a file of the program with a mode that is not the
\* mode of the file raises nothing and leaves the info line as it is, also
\* when the header is rewritten; the restore and every later append use
\* the mode of the file: the requested mode makes no difference to the
\* store and to the file
C18_FileModeWins ==
    [][/\ (OpenStep /\ InfoValid(ReadInfo(file)))
            => /\ db' # Closed
               /\ ReadInfo(file') = ReadInfo(file)
               /\ db'.logdbcsv.log_delta = FileMode(file)
               /\ prev'.backup = Absent
               /\ OpenedAs(prev'.label_specs, ~prev'.log_delta)
                     = [ok |-> TRUE, db |-> db', file |-> file', backup |-> Absent]
       /\ (HasCsv /\ IsOpen' /\ InfoValid(ReadInfo(file)))
            => /\ ReadInfo(file') = ReadInfo(file)
               /\ db'.logdbcsv.log_delta = FileMode(file)]_vars

\* A store constructed in absolute mode on a delta file with a repeated
\* value, whose header it has extended: the record without field for a
\* is restored with the value of the record before
C18_DeltaFileAbsoluteRequest ==
    /\ HasCsv /\ prev # NoPrev /\ prev.backup = Absent
    /\ ~prev.log_delta /\ db.logdbcsv.log_delta
    /\ prev.found # Absent /\ prev.found.hdr
    /\ prev.found.info = InfoLine(TRUE) /\ file.info = InfoLine(TRUE)
    /\ prev.found.labels = <<"Time", "a">>
    /\ file.labels = <<"Time", "a", LongLabel>>
    /\ prev.found.body = <<"9", ",", "7", NL, "1", "0", ",", NL>>

----------------------------------------------------------------------------
(* Arguments of insert that are refused (SpecShape) *)

\* The step is a call of insert, and the argument of the call
InsertCall == IsOpen /\ IsOpen' /\ "log_data" \in DOMAIN prev'
Argument == prev'.log_data

\* C19: an insert with a list whose length is not the number of sensor
\* labels, or with an argument that is neither a list nor a mapping,
\* raises, appends no line to the file and leaves every column as it was;
\* a list of the right length is accepted and appends its line
C19_ShapeErrors ==
    [][InsertCall
        => /\ ((Argument.kind = "list" /\ Len(Argument.v) # Len(db.labels) - 1)
                  \/ Argument.kind \notin {"list", "dict"})
                => /\ prev'.raised
                   /\ file' = file
                   /\ db'.data = db.data
                   /\ db' = db
           /\ (Argument.kind = "list" /\ Len(Argument.v) = Len(db.labels) - 1)
                => /\ ~prev'.raised
                   /\ Len(db'.data["Time"]) = Len(db.data["Time"]) + 1
                   /\ HasCsv => Len(file'.body) > Len(file.body)]_vars

\* A store with a file and a record that has refused a list with one
\* value too many
C19_LongListRefused ==
    /\ HasCsv /\ Resident >= 1 /\ file.body # <<>>
    /\ "log_data" \in DOMAIN prev /\ prev.raised
    /\ prev.log_data.kind = "list"
    /\ Len(prev.log_data.v) = Len(db.labels)

----------------------------------------------------------------------------
(* Queries while an insert is in progress (SpecTorn) *)

\* The values of the row are the values of one record
OneRecord(data_set) ==
    \A i \in 1..Len(data_set), j \in 1..Len(data_set) : data_set[i] = data_set[j]

\* The store after the inserts of the data sets, one call after the other
RECURSIVE Inserted1(_, _)
Inserted1(d, data_sets) ==
    IF data_sets = <<>> THEN d
    ELSE Inserted1(LogDB_insert(d, Absent,
                                [kind |-> "list", v |-> <<Head(data_sets)["a"]>>],
                                Head(data_sets)["Time"].num).db,
                   Tail(data_sets))

\* The passes of an insert together are the insert: when no insert is in
\* progress the columns are those of the calls one after the other
InsertBySteps ==
    thr.w.pc = "idle"
        => db = Inserted1(LogDB_init(Absent, <<"a">>, FALSE,
                                     db.number_retention_records, None, FALSE,
                                     INIT_RELOAD_SIZE).db, hist)

\* C20: a query of get or get_csv that runs while the main thread inserts
\* never fails with an index error and never returns a row whose values
\* are from different records
C20_NoTornRead ==
    /\ thr.r.pc # "IndexError"
    /\ thr.r.pc \in {"read", "done"}
          => \A i \in 1..Len(thr.r.data_sets) : OneRecord(thr.r.data_sets[i])

\* A query of get has returned a row with the time of one record and the
\* value of another
C20_TornRow ==
    /\ thr.r.pc = "done" /\ thr.r.kind = "get"
    /\ \E i \in 1..Len(thr.r.data_sets) : ~OneRecord(thr.r.data_sets[i])

\* A query of get_csv has failed with an index error
C20_IndexError ==
    thr.r.pc = "IndexError" /\ thr.r.kind = "get_csv"

----------------------------------------------------------------------------
(* The end of the store (SpecShut) *)

\* close has been called on the store
CloseCalled == IsOpen /\ "close" \in DOMAIN prev

\* C21: after close the store is closed for good: the call releases the
\* file, and no later operation changes the file or a column; an insert
\* after close appends no line and alters no column
C21_ClosedIsTerminal ==
    [][CloseCalled => (file' = file /\ (IsOpen' => db'.data = db.data))]_vars

\* A store with a file that has appended a line and a record after the
\* call of close
C21_InsertAfterClose ==
    /\ CloseCalled /\ HasCsv
    /\ Len(hist) > prev.inserted
    /\ Resident = Len(hist)
    /\ file.body # <<>>

----------------------------------------------------------------------------
(* Label selections (SpecSel) *)

Selected == "key_patterns" \in DOMAIN prev

\* C22: the selected labels are the time label followed by the labels
\* that match a pattern, in the order the store declares them, whatever
\* the order of the patterns
C22_SelectionInDeclarationOrder ==
    Selected
        => prev.labels = <<"Time">> \o
              SelectSeq(Tail(db.labels),
                        LAMBDA label : label \in UNION Range(prev.key_patterns))

\* Patterns for b and for a, in this order, on the store that declares a
\* before b: b is selected before a
C22_PatternOrder ==
    /\ Selected
    /\ db.labels = <<"Time", "a", "b">>
    /\ prev.key_patterns = <<{"b"}, {"a"}>>
    /\ prev.labels = <<"Time", "b", "a">>

\* C23: no label is selected twice, also when a label matches two
\* patterns or a pattern is given twice
C23_SelectionWithoutDuplicates ==
    Selected
        => \A i \in 1..Len(prev.labels), j \in 1..Len(prev.labels) :
              prev.labels[i] = prev.labels[j] => i = j

\* The pattern for a given twice selects a twice
C23_SelectedTwice ==
    /\ Selected
    /\ prev.key_patterns = <<{"a"}, {"a"}>>
    /\ prev.labels = <<"Time", "a", "a">>

----------------------------------------------------------------------------
(* Exports with decimation (SpecCsv) *)

Exported == "csv" \in DOMAIN prev
Rows == prev.csv.rows

\* C24: every row of an export aggregates the records of its own group,
\* as many as the factor in force, and no record that an earlier row has
\* aggregated
C24_ExactGroups ==
    Exported
        => /\ \A i \in 1..Len(Rows) : Len(Rows[i].members) = Rows[i].factor
           /\ \A i \in 1..Len(Rows), j \in 1..Len(Rows) :
                 i # j => Range(Rows[i].members) \cap Range(Rows[j].members) = {}

\* An export of three records with factor 3 from position 0: the third
\* row averages the records 1 and 2, of which the second row has shown
\* record 1 already
C24_RecordInTwoRows ==
    /\ Exported
    /\ prev.definitions = <<[position |-> PyInt(0), factor |-> 3]>>
    /\ Len(Rows) = 3
    /\ Rows[2].members = <<1>> /\ Rows[3].members = <<1, 2>>
    /\ Rows[3].avg[2] = [n |-> 21, d |-> 2]

\* C25: a row of more than one record carries the time of the first
\* record of its group
C25_FirstTimeOfGroup ==
    Exported
        => \A i \in 1..Len(Rows) :
              Len(Rows[i].members) > 1
                 => Rows[i].time = PyIndex(db.data["Time"], Rows[i].members[1])

\* An export of four records with factor 2 from position 0: the third row
\* is the group of the records 2 and 3 and carries the time of record 3
C25_LastTimeOfGroup ==
    /\ Exported
    /\ prev.definitions = <<[position |-> PyInt(0), factor |-> 2]>>
    /\ Len(Rows) = 3
    /\ Rows[3].members = <<2, 3>>
    /\ Rows[3].time = Num(12)
    /\ PyIndex(db.data["Time"], 2) = Num(11)

\* The rows as the text shows them: the time and the means
SameMean(x, y) == x.n * y.d = y.n * x.d /\ (x.d = 0) = (y.d = 0)
SameText(rows1, rows2) ==
    /\ Len(rows1) = Len(rows2)
    /\ \A i \in 1..Len(rows1) :
          /\ rows1[i].time = rows2[i].time
          /\ \A k \in DOMAIN rows1[i].avg : SameMean(rows1[i].avg[k], rows2[i].avg[k])

\* C26: the export depends on the set of the sections only: the
\* definitions listed in the other order give the same rows
C26_SectionOrderIndependent ==
    (Exported /\ Len(prev.definitions) = 2)
        => SameText(Rows, get_csv(db, <<{"a", "b"}>>, PyFrac(0, 1), PyFrac(1, 1),
                                  Reverse(prev.definitions)).rows)

\* An export of four records with factor 1 from position 2 listed before
\* factor 2 from position 0: four rows, where the other order gives three
C26_ListedDescending ==
    /\ Exported
    /\ prev.definitions = <<[position |-> PyInt(2), factor |-> 1],
                            [position |-> PyInt(0), factor |-> 2]>>
    /\ Len(db.data["Time"]) = 4
    /\ Len(Rows) # Len(get_csv(db, <<{"a", "b"}>>, PyFrac(0, 1), PyFrac(1, 1),
                               Reverse(prev.definitions)).rows)

----------------------------------------------------------------------------
(* The delay and the minimum interval of the trigger (SpecTrig) *)

Calls == 1..Len(hist)

\* Call l of log had a value past threshold i (from 0) of the list above,
\* or of the list below
BeyondAbove(l, i) == hist[l].value > db.above[i + 1]
BeyondBelow(l, i) == hist[l].value < db.below[i + 1]

\* Since a call that is at least for_ seconds older than call k, every
\* call up to k had a value past the threshold
SustainedAbove(k, i) ==
    \E j \in 1..k :
        /\ hist[j].time + db.for_ <= hist[k].time
        /\ \A l \in j..k : BeyondAbove(l, i)

SustainedBelow(k, i) ==
    \E j \in 1..k :
        /\ hist[j].time + db.for_ <= hist[k].time
        /\ \A l \in j..k : BeyondBelow(l, i)

\* C27: a call of log invokes the action for a threshold only if the
\* values have been past that threshold since a call at least for_ seconds
\* older, so that every call less than for_ seconds before it had a value
\* past the threshold; a call with a value that is not past the threshold
\* starts the delay of the threshold again
C27_ForDelay ==
    \A k \in Calls :
        hist[k].action
            => /\ hist[k].index_above >= 0 \/ hist[k].index_below >= 0
               /\ hist[k].index_above >= 0
                     => /\ SustainedAbove(k, hist[k].index_above)
                        /\ \A l \in 1..k :
                              hist[l].time + db.for_ > hist[k].time
                                  => BeyondAbove(l, hist[k].index_above)
               /\ hist[k].index_below >= 0
                     => /\ SustainedBelow(k, hist[k].index_below)
                        /\ \A l \in 1..k :
                              hist[l].time + db.for_ > hist[k].time
                                  => BeyondBelow(l, hist[k].index_below)

\* With a delay of 2 seconds: a value past the threshold, a value that is
\* not, and then the action at the second of two calls past the threshold
\* that are 2 seconds apart
C27_DelayAgain ==
    /\ db.for_ = 2 /\ db.above = <<10>> /\ Len(hist) = 4
    /\ hist[1].value = 15 /\ hist[2].value = 5
    /\ hist[3].value = 15 /\ hist[4].value = 15
    /\ hist[4].time = hist[3].time + 2
    /\ ~hist[3].action /\ hist[4].action

\* The call before call k that has invoked the action last, 0 if none
LastAction(k) ==
    IF \E j \in 1..(k - 1) : hist[j].action
    THEN CHOOSE j \in 1..(k - 1) :
             hist[j].action /\ \A l \in (j + 1)..(k - 1) : ~hist[l].action
    ELSE 0

\* Call k found a higher threshold than call j
HigherLevel(j, k) ==
    \/ hist[k].index_above > hist[j].index_above
    \/ hist[k].index_below > hist[j].index_below

\* C28: two invocations of the action that are less than min_interval
\* seconds apart happen only if the later one found a higher threshold
\* than the earlier one
C28_MinInterval ==
    \A k \in Calls :
        (hist[k].action /\ LastAction(k) # 0)
            => \/ hist[k].time >= hist[LastAction(k)].time + db.min_interval
               \/ HigherLevel(LastAction(k), k)

\* With a minimum interval of 3 seconds the action is invoked twice within
\* one second for the same threshold, with a value below the threshold
\* between the two
C28_SameLevelAgain ==
    /\ db.min_interval = 3 /\ db.above = <<10>> /\ Len(hist) = 3
    /\ hist[1].value = 15 /\ hist[2].value = 5 /\ hist[3].value = 15
    /\ hist[1].action /\ hist[3].action
    /\ hist[3].time < hist[1].time + 3

\* The index, from 0, of the highest threshold of the ascending list above
\* that the value of call l exceeds, -1 if there is none or no call l
Exceeded(l) ==
    IF l = 0 THEN -1
    ELSE Cardinality({i \in DOMAIN db.above : hist[l].value > db.above[i]}) - 1

Escalation(k) == Len(db.above) > 1 /\ Exceeded(k) > Exceeded(k - 1)

\* C29 as stated: with several ascending thresholds above, a call whose
\* value exceeds a higher threshold than the value of the call before
\* invokes the action
C29_Escalation ==
    \A k \in Calls : Escalation(k) => hist[k].action

\* C29: the same without delay ('for' is 0)
C29_EscalationWithoutDelay ==
    \A k \in Calls : (Escalation(k) /\ db.for_ = 0) => hist[k].action

\* Without delay and with a minimum interval of 3 seconds the action is
\* invoked for the first threshold and, at the same time, for the second
C29_EscalatedWithinInterval ==
    /\ db.for_ = 0 /\ db.min_interval = 3 /\ db.above = <<10, 20>>
    /\ Len(hist) = 2
    /\ hist[1].value = 15 /\ hist[2].value = 25
    /\ hist[2].time = hist[1].time
    /\ hist[1].action /\ hist[2].action

----------------------------------------------------------------------------
(* The order of file and memory in an insert (SpecWrite) *)

\* Number of complete data lines of the file
DataLines == Cardinality({i \in DOMAIN file.body : file.body[i] = NL})

\* The list of label grows in the step
Extended(label) == Len(db'.data[label]) > Len(db.data[label])

\* The write of the line fails in the step
WriteFails == thr.w.pc = "idle" /\ thr'.w = [pc |-> "idle", raised |-> "OSError"]

\* C30: the file holds at least as many data lines written since the
\* construction of the store as any list of the store holds records
\* appended since; a step that extends a list leaves the file as it is and
\* follows the write of the line of the record; an insert whose write
\* fails leaves all lists as they are
C30_AppendBeforeMirror ==
    /\ [](HasCsv => \A label \in DOMAIN db.data :
                        DataLines - prev.lines >= Len(db.data[label]) - prev.records)
    /\ [][(HasCsv /\ HasCsv')
              => \A label \in DOMAIN db.data :
                    Extended(label)
                        => /\ thr.w.pc = "append"
                           /\ file' = file
                           /\ DataLines - prev.lines
                                 > Len(db.data[label]) - prev.records]_vars
    /\ [][(HasCsv /\ WriteFails) => (HasCsv' /\ db'.data = db.data)]_vars

\* The line of the second record of a store is in the file, the lists hold
\* the first record only
C30_LineBeforeRecord ==
    /\ HasCsv
    /\ thr.w.pc = "append" /\ thr.w.index = 1
    /\ DataLines = 2 /\ prev.lines = 0
    /\ Len(db.data["Time"]) = 1 /\ Len(db.data["a"]) = 1

\* The write of the second record of a store has failed after its first
\* byte: the lists hold the first record
C30_FailedWrite ==
    /\ HasCsv
    /\ thr.w = [pc |-> "idle", raised |-> "OSError"]
    /\ DataLines = 1 /\ file.body[Len(file.body)] # NL
    /\ Len(db.data["Time"]) = 1 /\ Len(db.data["a"]) = 1

----------------------------------------------------------------------------
(* The first line of a store in delta mode (SpecWrite) *)

\* The step is the first call of insert since the construction of the
\* store, and its write succeeds
FirstInsert == InsertStep /\ thr.w = NoCall /\ DataLines = prev.lines

\* C31: in delta mode the first line a store appends has no empty field:
\* every field is the text of the value of the record or n for NaN, also
\* when the value is the one of the last line of the file
C31_NoRepeatAfterOpen ==
    [][(FirstInsert /\ db.logdbcsv.log_delta)
        => /\ OneLineAppended
           /\ Len(AppendedFields) = Len(ReadLabels(file))
           /\ \A i \in 1..Len(AppendedFields) :
                 LET value == ValueOf(Inserted, ReadLabels(file)[i])
                 IN  IF NotNaN(value) THEN TextOf(AppendedFields[i], value)
                     ELSE AppendedFields[i] = <<"n">>]_vars

\* A store on a delta file with the line 9,7 has appended 10,7 as its
\* first line
C31_SameValueAfterReopen ==
    /\ HasCsv /\ db.logdbcsv.log_delta
    /\ prev.lines = 1 /\ DataLines = 2
    /\ file.body = <<"9", ",", "7", NL, "1", "0", ",", "7", NL>>

----------------------------------------------------------------------------
(* The decoding of the fields (SpecDecode) *)

\* The value a field after the fields before it stands for
Decoded(i) == prev.column[i]

\* C32: an empty field or one of white space is NaN in absolute mode and
\* the value of the field before in delta mode, NaN if it is the first of
\* the column; n with or without white space around it is NaN; the text of
\* a number is its value; every other text is NaN
C32_FieldDecoding ==
    \A i \in 1..Len(hist) :
        LET string == Strip(hist[i])
        IN  IF string = <<>>
            THEN Decoded(i) = (IF prev.log_delta /\ i > 1 THEN Decoded(i - 1)
                               ELSE NaN)
            ELSE IF string = <<"n">> THEN Decoded(i) = NaN
            ELSE IF PyFloatOk(string) THEN Decoded(i) = PyFloat(string)
            ELSE Decoded(i) = NaN

\* In delta mode the text inf after the text 7 stands for 7
C32_InfinityRepeats ==
    /\ prev.log_delta
    /\ hist = <<(<<"7">>), PyFloatInf>>
    /\ prev.values = <<Num(7), REP>>
    /\ prev.column = <<Num(7), Num(7)>>

----------------------------------------------------------------------------
(* The info line of an existing file (SpecInfo) *)

\* The info line has the three parts logdbcsv, version=<v>, delta=<0|1>
StrictInfo(file_info) ==
    /\ Len(file_info) = 3
    /\ file_info[1] = "logdbcsv"
    /\ file_info[2] \in {"version=1.0", "version=2.0"}
    /\ file_info[3] \in {"delta=0", "delta=1"}

\* C33: a construction keeps the file it finds only if the info line has
\* the three parts; every other file is renamed and its records are not
\* restored
C33_StrictInfoLine ==
    [][OpenStep => IF StrictInfo(ReadInfo(file))
                   THEN prev'.backup = Absent /\ file' = file
                   ELSE /\ prev'.backup = file
                        /\ file' # file
                        /\ IsOpen' => db'.data["Time"] = <<>>]_vars

\* A store holds the record of a file whose info line is logdbcsv,x,delta=0
C33_VersionNotChecked ==
    /\ HasCsv
    /\ prev # NoPrev /\ prev.backup = Absent
    /\ prev.found # Absent /\ prev.found.info = <<"logdbcsv", "x", "delta=0">>
    /\ file = prev.found
    /\ db.data["a"] = <<Num(7)>>

----------------------------------------------------------------------------
(* The duration cap (SpecAge) *)

\* The lists before the last insert with its record appended
WithRecord ==
    [label \in {"Time", "a"} |->
        Append(prev.data[label],
               IF label = "Time" THEN Num(prev.tstamp) ELSE Num(prev.count))]

\* The number of records the last insert has removed
Evicted == Len(WithRecord["Time"]) - Len(db.data["Time"])

\* The lists are those before the insert without their first records
OldestRemoved ==
    /\ Evicted >= 0
    /\ \A label \in {"Time", "a"} :
          db.data[label] = SubSeq(WithRecord[label], Evicted + 1, Len(WithRecord[label]))

\* C34: with a duration cap d and no count cap, after every insert with
\* the time stamp t the store is not empty, its last record is the one
\* inserted, its first record has a time of t - 1.1 * d or later, and the
\* records removed are the first ones
C34_DurationAlone ==
    (prev.count > 0 /\ db.number_retention_records = None)
        => /\ Len(db.data["Time"]) > 0
           /\ db.data["Time"][Len(db.data["Time"])] = Num(prev.tstamp)
           /\ db.data["a"][Len(db.data["a"])] = Num(prev.count)
           /\ 10 * db.data["Time"][1].num >= 10 * prev.tstamp - 11 * db.retention_time
           /\ OldestRemoved

\* A store with a duration cap of 1 that held records of the times 9 and
\* 10 holds, after the insert at 12, the record of that insert alone
C34_BothEvicted ==
    /\ db.number_retention_records = None /\ db.retention_time = 1
    /\ [i \in 1..Len(prev.data["Time"]) |-> prev.data["Time"][i].num] = <<9, 10>>
    /\ prev.tstamp = 12
    /\ db.data["Time"] = <<Num(12)>>

\* The number of records the count cap requires to remove, and the number
\* of records from the first that are older than t - 1.1 * d
CountRequires ==
    LET size == Len(WithRecord["Time"])
    IN  IF 10 * size > 11 * db.number_retention_records
        THEN size - db.number_retention_records ELSE 0
RECURSIVE OlderFrom(_)
OlderFrom(i) ==
    IF /\ i <= Len(WithRecord["Time"])
       /\ 10 * WithRecord["Time"][i].num < 10 * prev.tstamp - 11 * db.retention_time
    THEN 1 + OlderFrom(i + 1) ELSE 0

\* C35: with both caps an insert removes the larger of the two numbers of
\* records, also when the time stamps of the records do not increase
C35_EvictsMaximum ==
    (prev.count > 0 /\ db.number_retention_records # None)
        => /\ OldestRemoved
           /\ Evicted = Max(CountRequires, OlderFrom(1))

\* With a count cap of 2 and a duration cap of 1 the insert at 12 into the
\* records of the times 12 and 9 leaves one record: the count cap requires
\* to remove one record, the duration cap none
C35_EvictsMore ==
    /\ db.number_retention_records = 2 /\ db.retention_time = 1
    /\ [i \in 1..Len(prev.data["Time"]) |-> prev.data["Time"][i].num] = <<12, 9>>
    /\ prev.tstamp = 12
    /\ CountRequires = 1 /\ OlderFrom(1) = 0
    /\ db.data["Time"] = <<Num(12)>>

----------------------------------------------------------------------------
(* The index of a position (SpecIdx) *)

Resolved == "index" \in DOMAIN prev

\* The integer part of a / b, b > 0
IntegerPart(a, b) ==
    CHOOSE q \in -(IF a >= 0 THEN a ELSE -a)..(IF a >= 0 THEN a ELSE -a) :
        IF a >= 0 THEN q * b <= a /\ a < (q + 1) * b
        ELSE (q - 1) * b < a /\ a <= q * b

----------------------------------------------------------------------------
(* Files the program has written (SpecGrow) *)

\* The ends of the data lines of the file, and the number of fields
\* restore_data splits the line that ends at byte e into
LineEnds == {i \in DOMAIN file.body : file.body[i] = NL}
FieldsOfLine(e) ==
    1 + Cardinality({i \in 1..(e - 1) :
                        /\ file.body[i] = ","
                        /\ \A j \in LineEnds : j < e => j < i})

\* C37: every data line of a file the program has written has at most as
\* many fields as the label line has labels, whatever label lists and
\* modes the stores were constructed with, and no construction fails on
\* the file
C37_SelfWrittenRestores ==
    /\ [](file # Absent
             => \A e \in LineEnds : FieldsOfLine(e) <= Len(ReadLabels(file)))
    /\ [][db = Closed => db' # Closed]_vars

\* A store with the labels a and b holds the record of a file whose line
\* was written with the label a alone
C37_ShortLineRestored ==
    /\ HasCsv
    /\ ReadLabels(file) = <<"Time", "a", "b">>
    /\ file.body = <<"9", ",", "7", NL>>
    /\ db.logdbcsv.header_length # None
    /\ db.data["Time"] = <<Num(9)>>

----------------------------------------------------------------------------
(* Records that insert refuses or accepts (SpecRec) *)

\* The step is a call of insert that raised
InsertRaised == InsertCall /\ prev'.raised

\* C38: whenever insert raises, for a value that is no number as for any
\* other reason, no column is extended and no line is appended to the
\* file; the columns have the same length at all times
C38_AllOrNothing ==
    /\ [](IsOpen => \A label \in DOMAIN db.data :
                        Len(db.data[label]) = Len(db.data["Time"]))
    /\ [][InsertRaised => (db'.data = db.data /\ file' = file)]_vars

\* An insert of the list ['N/A', 7] has raised: the file has the line of
\* the record, the column Time has its time stamp, the other columns
\* have nothing
C38_TimeExtendedAlone ==
    /\ HasCsv /\ ~db.logdbcsv.log_delta
    /\ "log_data" \in DOMAIN prev /\ prev.raised
    /\ prev.log_data.kind = "list"
    /\ prev.log_data.v = <<NotAvailable, Num(7)>>
    /\ file.body = <<"9", ",", "N", "/", "A", ",", "7", NL>>
    /\ db.data["Time"] = <<Num(9)>>
    /\ db.data["a"] = <<>> /\ db.data["g:b"] = <<>>

\* The keys of a mapping after flattening, and the last field of a column
Supplied == Flatten(Argument.v)
Newest(column) == column[Len(column)]

\* C40: an insert of a mapping (flat, nested or mixed) with a key that,
\* after flattening, is no label raises and changes neither the columns
\* nor the file; an insert of a mapping of numbers under labels only
\* stores every value under its label in memory and appends a line
C40_NoValueDiscarded ==
    [][(InsertCall /\ Argument.kind = "dict")
        => IF \E key \in DOMAIN Supplied : key \notin Range(db.labels)
           THEN /\ prev'.raised
                /\ db'.data = db.data
                /\ file' = file
           ELSE (\A key \in DOMAIN Supplied : IsFloat(Supplied[key]))
                   => /\ ~prev'.raised
                      /\ \A key \in DOMAIN Supplied :
                            /\ Len(db'.data[key]) = Len(db.data[key]) + 1
                            /\ Newest(db'.data[key]) = Supplied[key]
                      /\ HasCsv =>
                            file'.body = file.body
                                \o CsvLine(db.logdbcsv, hist'[Len(hist')])]_vars

\* An insert of {'a': 7, 'g': {'c': 12}} has not raised: the record holds
\* the value of a, and neither the columns nor the file hold the 12
C40_UndeclaredKeyDropped ==
    /\ HasCsv /\ ~db.logdbcsv.log_delta
    /\ "log_data" \in DOMAIN prev /\ ~prev.raised
    /\ prev.log_data.kind = "dict"
    /\ DOMAIN prev.log_data.v = {"a", "g"}
    /\ DOMAIN prev.log_data.v["g"].dict = {"c"}
    /\ file.body = <<"9", ",", "7", ",", NL>>
    /\ db.data["Time"] = <<Num(9)>>
    /\ db.data["a"] = <<Num(7)>> /\ db.data["g:b"] = <<NaN>>

----------------------------------------------------------------------------
(* Queries beyond the resident records (SpecWin) *)

Queried == "index_range" \in DOMAIN prev
\* The indexes the loops of get and get_csv read (range(*index_range))
Positions == prev.index_range[1]..(prev.index_range[2] - 1)
\* A list of time stamps in chronological order without repetition
Chronological(times) ==
    \A i \in DOMAIN times : \A j \in DOMAIN times :
        i < j => times[i].num < times[j].num

\* C39: for every start and end position, get and get_csv read only
\* indexes from 0 to the number of resident records minus 1, and return
\* the selected records in chronological order, each at most once
C39_InsideResidentWindow ==
    Queried
        => /\ \A pos \in Positions : 0 <= pos /\ pos < Resident
           /\ ~prev.raised
           /\ Chronological([i \in DOMAIN prev.data_sets |->
                                prev.data_sets[i]["Time"]])
           /\ Chronological([i \in DOMAIN prev.rows |-> prev.rows[i].time])

\* get(start=-4) and get_csv(start=-4) of a store of three records have
\* returned the newest record first and the three records after it
C39_WrappedAround ==
    /\ Queried /\ Resident = 3
    /\ prev.start = PyInt(-4) /\ prev.end = PyFrac(2, 2)
    /\ prev.index_range = <<-1, 3>>
    /\ ~prev.raised
    /\ [i \in 1..4 |-> prev.data_sets[i]["Time"]]
          = <<Num(11), Num(9), Num(10), Num(11)>>
    /\ [i \in 1..4 |-> prev.rows[i].time]
          = <<Num(11), Num(9), Num(10), Num(11)>>

====
